---- MODULE Spec2Model ----
(***************************************************************************)
(* vibe-tracker: the real-time Sequencer (src/src/sequencer.py), the       *)
(* Instrument voice manager it drives (src/src/synthesis.py), the control  *)
(* side that feeds it (MusicEngine / VibeTrackerApp, src/src/tui.py) and   *)
(* the offline renderer that shares its instruments (src/src/exporter.py). *)
(*                                                                         *)
(* Two threads: the audio thread runs Sequencer._audio_callback, the       *)
(* control thread (the UI event loop and its coroutine workers) runs       *)
(* everything else, one operation at a time.  The callback is split at the *)
(* points where the control thread can interleave with it.                 *)
(*                                                                         *)
(* Encodings: a velocity is in percent (100 = 1.0); an envelope level is   *)
(* an integer number of 1/LevelOne units, chosen so that every rate of the *)
(* default ADSR parameters is a whole number of units per sample; the      *)
(* empty pattern slot (None) is the NoteEvent with note = "".              *)
(***************************************************************************)
EXTENDS Integers, Sequences, FiniteSets, TLC

\* ------------------------------------------------------------------ bounds
\* Audio callbacks explored after each cursor reset (play, update_composition).
MaxBlocks == 2
\* Chunks of one offline render explored, interleaved with the audio thread.
MaxRenderChunks == 2
\* Tracks one composition can collect from the pattern library.
MaxTracks == 2
\* Sequencer._event_counter grows across play/stop cycles until the next
\* update_composition; callbacks are explored while it is below this.
MaxEventCounter == 6

\* ------------------------------------------------------- program constants
SAMPLE_RATE == 44100
STEPS_PER_PATTERN == 64
buffer_size == 256

\* Instrument.__init__ / Instrument.from_dict defaults, in samples and units.
AttackSamples == SAMPLE_RATE \div 100
DecaySamples == SAMPLE_RATE \div 10
ReleaseSamples == SAMPLE_RATE \div 5
LevelOne == SAMPLE_RATE * ReleaseSamples
SustainLevel == (LevelOne \div 10) * 7

\* Block sizes the audio driver asks for (frames argument of the callback).
BlockSizes == {512, 6000}

\* ------------------------------------------------------------- data model
None == [note |-> "", velocity |-> 0, duration |-> 0]

NoteEvent(note, velocity, duration) ==
    [note |-> note, velocity |-> velocity, duration |-> duration]

\* Pattern(): [None] * STEPS_PER_PATTERN
EmptyPattern == [i \in 1..STEPS_PER_PATTERN |-> None]

\* NoteEvent.from_dict: the fields of the record that NoteEvent has, and
\* duration 1 when the record has none.
NoteEventFromDict(data) ==
    NoteEvent(data.note, data.velocity,
              IF "duration" \in DOMAIN data THEN data.duration ELSE 1)

\* Track.from_dict: one 64-step pattern, notes placed at their 'step' when
\* 0 <= step < STEPS_PER_PATTERN, sequence [0].
RECURSIVE PlaceNotes(_, _)
PlaceNotes(steps, notes) ==
    IF notes = <<>> THEN steps
    ELSE LET n == Head(notes)
             placed == IF 0 <= n.step /\ n.step < STEPS_PER_PATTERN
                       THEN [steps EXCEPT ![n.step + 1] = NoteEventFromDict(n)]
                       ELSE steps
         IN PlaceNotes(placed, Tail(notes))

TrackFromDict(data) ==
    [instrument_id |-> data.instrument_name,
     patterns |-> << PlaceNotes(EmptyPattern, data.notes) >>,
     sequence |-> << 0 >>]

\* Composition.from_dict
CompositionFromDict(data) ==
    [bpm |-> data.bpm,
     tracks |-> [i \in 1..Len(data.tracks) |-> TrackFromDict(data.tracks[i])]]

\* NoteEvent.to_dict: note and velocity, and duration only when it is > 1.
NoteEventToDict(note_event) ==
    IF note_event.duration > 1
    THEN [note |-> note_event.note, velocity |-> note_event.velocity,
          duration |-> note_event.duration]
    ELSE [note |-> note_event.note, velocity |-> note_event.velocity]

\* The loop of Track.to_dict over the steps from step_index on: one record
\* per step that holds a note event with a note, with its 'step' added.
RECURSIVE NotesList(_, _)
NotesList(steps, step_index) ==
    IF step_index >= Len(steps) THEN <<>>
    ELSE LET note_event == steps[step_index + 1]
             rest == NotesList(steps, step_index + 1)
         IN IF note_event # None /\ note_event.note # ""
            THEN << NoteEventToDict(note_event) @@ [step |-> step_index] >> \o rest
            ELSE rest

\* Track.to_dict: the instrument id and the notes of patterns[0] only.
TrackToDict(track) ==
    [instrument_name |-> track.instrument_id,
     notes |-> IF track.patterns # <<>> THEN NotesList(track.patterns[1], 0) ELSE <<>>]

\* Composition.to_dict
CompositionToDict(comp) ==
    [bpm |-> comp.bpm,
     tracks |-> [i \in 1..Len(comp.tracks) |-> TrackToDict(comp.tracks[i])]]

\* Composition.get_step_duration() * SAMPLE_RATE, truncated by int():
\* 1 / (bpm / 60 * 4) * SAMPLE_RATE.
StepDurationFrames(comp) == (SAMPLE_RATE * 60) \div (comp.bpm * 4)

\* MusicEngine.__init__: Composition(bpm=120), no tracks.
InitialComposition == [bpm |-> 120, tracks |-> <<>>]

\* ------------------------------------------------------------ input sets
\* Structural records an LLM answer or a saved composition can hold.
KickData ==
    [bpm |-> 120,
     tracks |-> << [instrument_name |-> "kick",
                    notes |-> << [note |-> "C2", velocity |-> 100, duration |-> 1, step |-> 0],
                                 [note |-> "C2", velocity |-> 100, duration |-> 1, step |-> 16],
                                 [note |-> "C2", velocity |-> 100, duration |-> 1, step |-> 32],
                                 [note |-> "C2", velocity |-> 100, duration |-> 1, step |-> 48] >>] >>,
     instruments |-> {"kick"}]

\* An answer without an "instruments" list: its track relies on an
\* instrument the engine's dict may or may not hold.
TracksOnlyData ==
    [bpm |-> 150,
     tracks |-> << [instrument_name |-> "kick",
                    notes |-> << [note |-> "C2", velocity |-> 80, duration |-> 2, step |-> 1] >>] >>,
     instruments |-> {}]

NoTracksData == [bpm |-> 3000, tracks |-> <<>>, instruments |-> {}]

MusicData == {KickData, TracksOnlyData, NoTracksData}

\* Patterns of the pattern library, with the instrument_id of their metadata.
SavedPatterns ==
    { [instrument_id |-> "bass",
       steps |-> << NoteEvent("A1", 100, 1), None >>] }

\* ------------------------------------------------- ADSREnvelope / ActiveNote
Min(a, b) == IF a <= b THEN a ELSE b
Max(a, b) == IF a >= b THEN a ELSE b
CeilDiv(a, b) == (a + b - 1) \div b

\* ADSREnvelope.__init__ rates for the default parameters.
attack_rate == LevelOne \div AttackSamples
decay_rate == (LevelOne - SustainLevel) \div DecaySamples

\* ActiveNote.__init__: a fresh envelope (level 0, state 'off') then
\* envelope.note_on().  `by` records who created the voice ("seq": the audio
\* callback, "old": the audio callback of a run that stop() has ended,
\* "render": the offline renderer); the code keeps no such field.
ActiveNote(note_name, velocity, by) ==
    [note_name |-> note_name, velocity |-> velocity, state |-> "attack",
     level |-> 0, release_rate |-> 0, by |-> by]

\* ADSREnvelope.note_off (release_time > 0): the slope comes from the level
\* at the time of the call.
EnvelopeNoteOff(v) ==
    [v EXCEPT !.release_rate = v.level \div ReleaseSamples, !.state = "release"]

is_active(v) == v.state # "off"

\* level + (n-1)*rate clipped at top; written so that no product exceeds it.
RampUp(level, n, rate, top) ==
    IF rate > 0 /\ n - 1 >= CeilDiv(top - level, rate) THEN top
    ELSE Min(level + (n - 1) * rate, top)

\* level - (n-1)*rate clipped at bottom.
RampDown(level, n, rate, bottom) ==
    IF rate > 0 /\ n - 1 >= CeilDiv(level - bottom, rate) THEN bottom
    ELSE Max(level - (n - 1) * rate, bottom)

\* ActiveNote._generate_envelope_block: the envelope after a block of
\* num_samples; the stored level is the block's LAST sample, index n-1.
GenerateEnvelopeBlock(v, num_samples) ==
    CASE v.state = "off" -> v
      [] v.state = "sustain" -> v
      [] v.state = "attack" ->
            LET l == RampUp(v.level, num_samples, attack_rate, LevelOne)
            IN [v EXCEPT !.level = l,
                         !.state = IF l >= LevelOne THEN "decay" ELSE "attack"]
      [] v.state = "decay" ->
            LET l == RampDown(v.level, num_samples, decay_rate, SustainLevel)
            IN [v EXCEPT !.level = l,
                         !.state = IF l <= SustainLevel THEN "sustain" ELSE "decay"]
      [] v.state = "release" ->
            LET l == RampDown(v.level, num_samples, v.release_rate, 0)
            IN [v EXCEPT !.level = l,
                         !.state = IF l <= 0 THEN "off" ELSE "release"]

\* ActiveNote.process, as far as the voice's state goes.
NoteProcess(v, num_samples) ==
    IF ~is_active(v) THEN v ELSE GenerateEnvelopeBlock(v, num_samples)

\* ----------------------------------------------------------- Instrument
\* An Instrument object: `obj` tells two objects under one name apart.
NewInstrument(obj) == [obj |-> obj, active_notes |-> <<>>]

RECURSIVE Filter(_, _)
Filter(seq, note_name) ==
    IF seq = <<>> THEN <<>>
    ELSE IF Head(seq).note_name # note_name
         THEN <<Head(seq)>> \o Filter(Tail(seq), note_name)
         ELSE Filter(Tail(seq), note_name)

\* A note_on that adds its voice beside the one already held for the pitch.
InstrNoteOn_Stacks(inst, note_name, velocity, by) ==
    [inst EXCEPT !.active_notes = Append(inst.active_notes, ActiveNote(note_name, velocity, by))]

\* Instrument.note_on
InstrNoteOn(inst, note_name, velocity, by) ==
    [inst EXCEPT !.active_notes =
        Append(Filter(inst.active_notes, note_name), ActiveNote(note_name, velocity, by))]

\* Instrument.note_off: every voice of that name, active or not.
InstrNoteOff(inst, note_name) ==
    [inst EXCEPT !.active_notes =
        [i \in 1..Len(inst.active_notes) |->
            IF inst.active_notes[i].note_name = note_name
            THEN EnvelopeNoteOff(inst.active_notes[i])
            ELSE inst.active_notes[i]]]

RECURSIVE ProcessNotes(_, _)
ProcessNotes(seq, num_samples) ==
    IF seq = <<>> THEN <<>>
    ELSE IF is_active(Head(seq))
         THEN <<NoteProcess(Head(seq), num_samples)>> \o ProcessNotes(Tail(seq), num_samples)
         ELSE ProcessNotes(Tail(seq), num_samples)

\* Instrument.process: notes_to_keep are the voices active at the start.
InstrProcess(inst, num_samples) ==
    [inst EXCEPT !.active_notes = ProcessNotes(inst.active_notes, num_samples)]

ProcessAll(instrs, num_samples) ==
    [id \in DOMAIN instrs |-> InstrProcess(instrs[id], num_samples)]

ClearAll(instrs) ==
    [id \in DOMAIN instrs |-> [instrs[id] EXCEPT !.active_notes = <<>>]]

\* ------------------------------------------- Instrument.process, with faults
\* Lines 434-446 when note.process raises for the voices named in `raising`:
\* such a voice gets envelope state 'off' and is not appended to
\* notes_to_keep; the other voices that were active are processed and kept.
RECURSIVE ProcessNotesRaising(_, _, _)
ProcessNotesRaising(seq, num_samples, raising) ==
    IF seq = <<>> THEN <<>>
    ELSE IF is_active(Head(seq)) /\ Head(seq).note_name \notin raising
         THEN <<NoteProcess(Head(seq), num_samples)>>
                  \o ProcessNotesRaising(Tail(seq), num_samples, raising)
         ELSE ProcessNotesRaising(Tail(seq), num_samples, raising)

\* Line 441, output_buffer += note_output: the voices whose block was added.
RECURSIVE MixedNotes(_, _)
MixedNotes(seq, raising) ==
    IF seq = <<>> THEN <<>>
    ELSE IF is_active(Head(seq)) /\ Head(seq).note_name \notin raising
         THEN <<Head(seq).note_name>> \o MixedNotes(Tail(seq), raising)
         ELSE MixedNotes(Tail(seq), raising)

\* Line 445, note.envelope.state = 'off': the voices whose process() raised,
\* as the except clause leaves them before they are dropped.
RECURSIVE SilencedNotes(_, _)
SilencedNotes(seq, raising) ==
    IF seq = <<>> THEN <<>>
    ELSE IF is_active(Head(seq)) /\ Head(seq).note_name \in raising
         THEN << [Head(seq) EXCEPT !.state = "off"] >> \o SilencedNotes(Tail(seq), raising)
         ELSE SilencedNotes(Tail(seq), raising)

\* An effects loop that gives up at the first effect that raises.
RECURSIVE ApplyEffects_StopAtRaise(_, _)
ApplyEffects_StopAtRaise(effects, raising) ==
    IF effects = <<>> \/ Head(effects) \in raising THEN <<>>
    ELSE <<Head(effects)>> \o ApplyEffects_StopAtRaise(Tail(effects), raising)

\* Lines 462-469: the effects whose process() result replaced output_buffer,
\* in chain order; an effect that raises leaves the buffer as it got it.
RECURSIVE ApplyEffects(_, _)
ApplyEffects(effects, raising) ==
    IF effects = <<>> THEN <<>>
    ELSE IF Head(effects) \in raising
         THEN ApplyEffects(Tail(effects), raising)
         ELSE <<Head(effects)>> \o ApplyEffects(Tail(effects), raising)

\* Instrument.process(num_samples) as a whole: the instrument afterwards,
\* what went into the returned buffer, the effects process() was called on,
\* and whether an exception left the method (every raising call is inside
\* a try whose except clause swallows it).
InstrProcessRaising(inst, num_samples, raisingVoices, raisingEffects) ==
    [inst |-> [inst EXCEPT !.active_notes =
                  ProcessNotesRaising(inst.active_notes, num_samples, raisingVoices)],
     mixed |-> MixedNotes(inst.active_notes, raisingVoices),
     silenced |-> SilencedNotes(inst.active_notes, raisingVoices),
     attempted |-> inst.effects,
     applied |-> ApplyEffects(inst.effects, raisingEffects),
     raised |-> FALSE]

\* The instrument that is driven on its own: two pitches, a chain of three
\* effects.
UnitPitches == {"C4", "E4"}
UnitEffects == << "fx1", "fx2", "fx3" >>
UnitBlockSizes == {6000}

\* The faults of one process() call: voices whose process() raises, or
\* effects whose process() raises.
UnitFaults ==
    { [voices |-> v, effects |-> {}] : v \in SUBSET UnitPitches } \cup
    { [voices |-> {}, effects |-> e] : e \in SUBSET { UnitEffects[i] : i \in DOMAIN UnitEffects } }

NewUnit == [obj |-> 0, active_notes |-> <<>>, effects |-> UnitEffects]

NoCall ==
    [op |-> "none", note |-> "", before |-> <<>>,
     raisingVoices |-> {}, raisingEffects |-> {}, afterEffectFault |-> FALSE,
     mixed |-> <<>>, silenced |-> <<>>, attempted |-> <<>>, applied |-> <<>>,
     raised |-> FALSE]

\* ------------------------------------------------------------ Sequencer
VARIABLES
    composition,        \* Sequencer.composition (the object's current contents)
    instruments,        \* Sequencer.instruments: instrument_id -> Instrument
    is_playing,         \* Sequencer.is_playing
    stream,             \* Sequencer._stream: "none", "open" (built, not running), "active"
    current_frame,      \* Sequencer._current_frame
    note_off_events,    \* Sequencer._note_off_events
    event_counter,      \* Sequencer._event_counter
    lock,               \* Sequencer._lock: "free", "audio", "control"
    cbPc,               \* audio thread: "idle", "ons", "mix"
    cbFrames,           \* the running callback's `frames`
    cbSeen,             \* what the running callback found when it took the lock
    ctlPc,              \* control thread: "idle", "update", "update_cs", "render"
    ctlArgs,            \* the arguments of the pending update_composition call
    render,             \* the running offline render: its event tables and position
    blocksRun,          \* callbacks since the cursor was last reset
    blockLog,           \* history: the callbacks' blocks since that reset, and where a render cut in
    noteOnLog,          \* history: note_on calls of the callbacks since that reset
    staleFired,         \* history: a note-off queued at a stop() was fired later
    stoppedFrames,      \* history: the frames of the note-offs queued at the last stop()
    lastCtl,            \* history: the control operation that returned last
    unit,               \* an Instrument driven directly through its own methods
    unitCall,           \* history: the last call on that instrument and what it did
    cbOut,              \* history: what the last finished callback put into outdata
    calcIn,             \* the arguments of a function of the program taken on its own
    calcOut             \* what that function has returned, or the object it works on

vars == << composition, instruments, is_playing, stream, current_frame,
           note_off_events, event_counter, lock, cbPc, cbFrames, cbSeen,
           ctlPc, ctlArgs, render, blocksRun, blockLog, noteOnLog, staleFired,
           stoppedFrames, lastCtl, unit, unitCall, cbOut, calcIn, calcOut >>

\* Everything but the two variables of the functions taken on their own.
modelVars == << composition, instruments, is_playing, stream, current_frame,
                note_off_events, event_counter, lock, cbPc, cbFrames, cbSeen,
                ctlPc, ctlArgs, render, blocksRun, blockLog, noteOnLog, staleFired,
                stoppedFrames, lastCtl, unit, unitCall, cbOut >>

calcVars == << calcIn, calcOut >>

unitVars == << unit, unitCall >>

histVars == << staleFired, stoppedFrames, lastCtl >>

seqVars == << composition, instruments, is_playing, stream, current_frame,
              note_off_events, event_counter >>

\* all_pattern_lengths / total_loop_steps
PatternLengths(comp) ==
    (UNION { { Len(comp.tracks[t].patterns[p]) : p \in DOMAIN comp.tracks[t].patterns }
             : t \in DOMAIN comp.tracks }) \ {0}

SetMax(S) == CHOOSE m \in S : \A x \in S : x <= m

TotalLoopSteps(comp) ==
    IF PatternLengths(comp) = {} THEN 64 ELSE SetMax(PatternLengths(comp))

\* An insertion by frame alone, before the entries of the same frame.
Insort_BeforeTies(queue, ev) ==
    LET Before(h) == h.frame < ev.frame
        k == Cardinality({ i \in DOMAIN queue : Before(queue[i]) })
    IN SubSeq(queue, 1, k) \o <<ev>> \o SubSeq(queue, k + 1, Len(queue))

\* bisect.insort on (frame, event_id, ...): after every entry that is not greater.
Insort(queue, ev) ==
    LET Before(h) == h.frame < ev.frame \/ (h.frame = ev.frame /\ h.event_id <= ev.event_id)
        k == Cardinality({ i \in DOMAIN queue : Before(queue[i]) })
    IN SubSeq(queue, 1, k) \o <<ev>> \o SubSeq(queue, k + 1, Len(queue))

\* Step 1a's loop: how many leading entries have frame < end_frame.
RECURSIVE ProcessedEvents(_, _)
ProcessedEvents(queue, end_frame) ==
    IF queue = <<>> \/ Head(queue).frame >= end_frame THEN 0
    ELSE 1 + ProcessedEvents(Tail(queue), end_frame)

\* The entries of that prefix that are inside the block are fired.
Fires(ev, start_frame, end_frame) == ev.frame < end_frame /\ ev.frame >= start_frame

\* instrument.note_off(note_name) on the object the entry holds; an object
\* that is no longer in the map changes nothing the sequencer can see.
RECURSIVE FireNoteOffs(_, _, _, _)
FireNoteOffs(instrs, queue, n, start_frame) ==
    IF n = 0 THEN instrs
    ELSE LET ev == Head(queue)
             hit == /\ ev.frame >= start_frame
                    /\ ev.instrument \in DOMAIN instrs
                    /\ instrs[ev.instrument].obj = ev.obj
             next == IF hit
                     THEN [instrs EXCEPT ![ev.instrument] = InstrNoteOff(@, ev.note)]
                     ELSE instrs
         IN FireNoteOffs(next, Tail(queue), n - 1, start_frame)

\* A pattern index that forgets the loop and wraps on the pattern alone.
PatternStep_IgnoresLoop(step, loop, length) == step % length

\* current_loop_step = step % total_loop_steps, then
\* pattern_step = current_loop_step % len(pattern.steps).
PatternStep(step, loop, length) == (step % loop) % length

\* A note-off that always comes one step after its note-on.
NoteOffFrame_OneStep(step, sdf, duration) == step * sdf + sdf

\* note_off_frame = step * step_duration_frames + int(duration * step_duration_frames)
NoteOffFrame(step, sdf, duration) == step * sdf + duration * sdf

\* A step 1c that queues the note-off of a track whose instrument is unknown.
TriggerStep_QueuesUnknown(st, comp, step, t, cb, start_frame, end_frame) ==
    LET track == comp.tracks[t]
        loop == cb.total_loop_steps
        sdf == cb.step_duration_frames
    IN IF track.patterns = <<>> \/ track.sequence = <<>> THEN st
       ELSE LET sequence_index == (step \div loop) % Len(track.sequence)
                pattern_index == track.sequence[sequence_index + 1]
            IN IF pattern_index >= Len(track.patterns) THEN st
               ELSE LET pattern == track.patterns[pattern_index + 1]
                    IN IF pattern = <<>> THEN st
                       ELSE LET pattern_step == PatternStep(step, loop, Len(pattern))
                                note_event == pattern[pattern_step + 1]
                            IN IF note_event.note = "" THEN st
                               ELSE IF track.instrument_id \notin DOMAIN st.instruments
                               THEN [st EXCEPT
                                       !.queue = Insort(@, [frame |-> NoteOffFrame(step, sdf, note_event.duration),
                                                            event_id |-> st.counter,
                                                            instrument |-> track.instrument_id,
                                                            obj |-> 0,
                                                            note |-> note_event.note,
                                                            stale |-> FALSE]),
                                       !.counter = @ + 1]
                               ELSE LET id == track.instrument_id
                                        note_off_frame == NoteOffFrame(step, sdf, note_event.duration)
                                        ev == [frame |-> note_off_frame,
                                               event_id |-> st.counter,
                                               instrument |-> id,
                                               obj |-> st.instruments[id].obj,
                                               note |-> note_event.note,
                                               stale |-> FALSE]
                                    IN [instruments |->
                                            [st.instruments EXCEPT ![id] =
                                                InstrNoteOn(@, note_event.note, note_event.velocity, "seq")],
                                        queue |-> Insort(st.queue, ev),
                                        counter |-> st.counter + 1,
                                        raised |-> FALSE,
                                        log |-> Append(st.log,
                                                  [track |-> t, step |-> step,
                                                   start |-> start_frame, end |-> end_frame])]

\* list[index]: an index from -len to len-1 is in range, a negative one
\* counts from the end, any other raises IndexError.
InRange(list, index) == -Len(list) <= index /\ index < Len(list)

ListItem(list, index) == list[IF index < 0 THEN Len(list) + index + 1 ELSE index + 1]

\* Step 1c for one (step, track): the guards of lines 93-107, then note_on
\* and the insertion of the note-off.  `raised` is set when
\* track.patterns[pattern_index] raises IndexError, which ends the callback.
TriggerStep(st, comp, step, t, cb, start_frame, end_frame) ==
    LET track == comp.tracks[t]
        loop == cb.total_loop_steps
        sdf == cb.step_duration_frames
    IN IF track.patterns = <<>> \/ track.sequence = <<>> THEN st
       ELSE LET sequence_index == (step \div loop) % Len(track.sequence)
                pattern_index == track.sequence[sequence_index + 1]
            IN IF pattern_index >= Len(track.patterns) THEN st
               ELSE IF ~InRange(track.patterns, pattern_index)
               THEN [st EXCEPT !.raised = TRUE]
               ELSE LET pattern == ListItem(track.patterns, pattern_index)
                    IN IF pattern = <<>> THEN st
                       ELSE LET pattern_step == PatternStep(step, loop, Len(pattern))
                                note_event == pattern[pattern_step + 1]
                            IN IF note_event.note = "" \/ track.instrument_id \notin DOMAIN st.instruments
                               THEN st
                               ELSE LET id == track.instrument_id
                                        note_off_frame == NoteOffFrame(step, sdf, note_event.duration)
                                        ev == [frame |-> note_off_frame,
                                               event_id |-> st.counter,
                                               instrument |-> id,
                                               obj |-> st.instruments[id].obj,
                                               note |-> note_event.note,
                                               stale |-> FALSE]
                                    IN [instruments |->
                                            [st.instruments EXCEPT ![id] =
                                                InstrNoteOn(@, note_event.note, note_event.velocity, "seq")],
                                        queue |-> Insort(st.queue, ev),
                                        counter |-> st.counter + 1,
                                        raised |-> FALSE,
                                        log |-> Append(st.log,
                                                  [track |-> t, step |-> step,
                                                   start |-> start_frame, end |-> end_frame])]

\* for track in self.composition.tracks: a track without a note at this
\* step leaves everything as it is.
RECURSIVE TriggerTracks(_, _, _, _, _, _, _)
TriggerTracks(st, comp, step, t, cb, start_frame, end_frame) ==
    IF t > Len(comp.tracks) THEN st
    ELSE LET next == TriggerStep(st, comp, step, t, cb, start_frame, end_frame)
         IN IF next.raised THEN next
            ELSE IF next.counter = st.counter
            THEN TriggerTracks(st, comp, step, t + 1, cb, start_frame, end_frame)
            ELSE TriggerTracks(next, comp, step, t + 1, cb, start_frame, end_frame)

\* for step in range(start_step, end_step + 1): for track in tracks: ...
RECURSIVE TriggerSteps(_, _, _, _, _, _, _)
TriggerSteps(st, comp, step, end_step, cb, start_frame, end_frame) ==
    IF step > end_step THEN st
    ELSE LET next == TriggerTracks(st, comp, step, 1, cb, start_frame, end_frame)
         IN IF next.raised THEN next
            ELSE IF next.counter = st.counter
            THEN TriggerSteps(st, comp, step + 1, end_step, cb, start_frame, end_frame)
            ELSE TriggerSteps(next, comp, step + 1, end_step, cb, start_frame, end_frame)

\* ---------------------------------------------------------- initial state
NoInstruments == [id \in {} |-> NewInstrument(0)]

\* The objects of an instrument map, without their voices.
ObjectsOf(instrs) == [id \in DOMAIN instrs |-> instrs[id].obj]

NotInCallback ==
    [composition |-> InitialComposition, objects |-> ObjectsOf(NoInstruments),
     step_duration_frames |-> 0, total_loop_steps |-> 0]

NoArgs == [sameComposition |-> TRUE, composition |-> InitialComposition,
           sameInstruments |-> TRUE, instruments |-> NoInstruments]

NoOutput == [written |-> FALSE, frames |-> 0, mixed |-> {}, raised |-> {}]

NoRender == [ons |-> <<>>, offs |-> <<>>, pos |-> 0, total |-> 0, chunks |-> 0]

\* What play(), stop() and update_composition hand back to their caller: all
\* three end in a bare return or fall off their last line.
ReturnValue == "None"

\* What is remembered of a control operation: its name, the value it
\* returned and, for update_composition, what the sequencer held when it was
\* called.
Returned(op) ==
    [op |-> op, value |-> ReturnValue,
     hadVoices |-> FALSE, hadQueue |-> FALSE, hadFrame |-> FALSE]

\* History only: the voices the callbacks created are marked as belonging to
\* a run that has ended; nothing the code reads changes.
EndOfRun(instrs) ==
    [id \in DOMAIN instrs |->
        [instrs[id] EXCEPT !.active_notes =
            [i \in DOMAIN instrs[id].active_notes |->
                IF instrs[id].active_notes[i].by = "seq"
                THEN [instrs[id].active_notes[i] EXCEPT !.by = "old"]
                ELSE instrs[id].active_notes[i]]]]

HasVoices(instrs) == \E id \in DOMAIN instrs : instrs[id].active_notes # <<>>

\* MusicEngine.__init__ and Sequencer.__init__: the engine and the sequencer
\* hold the same Composition object and the same instruments dict.
ModelInit ==
    /\ composition = InitialComposition
    /\ instruments = NoInstruments
    /\ is_playing = FALSE
    /\ stream = "none"
    /\ current_frame = 0
    /\ note_off_events = <<>>
    /\ event_counter = 0
    /\ lock = "free"
    /\ cbPc = "idle"
    /\ cbFrames = 0
    /\ cbSeen = NotInCallback
    /\ ctlPc = "idle"
    /\ ctlArgs = NoArgs
    /\ render = NoRender
    /\ blocksRun = 0
    /\ blockLog = <<>>
    /\ noteOnLog = <<>>
    /\ staleFired = FALSE
    /\ stoppedFrames = {}
    /\ lastCtl = Returned("none")
    /\ unit = NewUnit
    /\ unitCall = NoCall
    /\ cbOut = NoOutput

\* No function is being looked at on its own.
NoCalc == [fn |-> "none"]

Init ==
    /\ ModelInit
    /\ calcIn = NoCalc
    /\ calcOut = NoCalc

\* ------------------------------------------------- Sequencer._audio_callback
\* Lines 43-84: take the lock, compute the block and the step grid, fire and
\* trim the due note-offs.
CallbackEnter ==
    /\ stream = "active" /\ cbPc = "idle"
    /\ blocksRun < MaxBlocks /\ event_counter < MaxEventCounter
    /\ lock = "free"
    /\ \E frames \in BlockSizes :
        LET start_frame == current_frame
            end_frame == start_frame + frames
            sdf == StepDurationFrames(composition)
            n == ProcessedEvents(note_off_events, end_frame)
        IN /\ cbFrames' = frames
           /\ cbSeen' = [composition |-> composition,
                         objects |-> ObjectsOf(instruments),
                         step_duration_frames |-> sdf,
                         total_loop_steps |-> TotalLoopSteps(composition)]
           /\ IF sdf > 0
              THEN /\ instruments' = FireNoteOffs(instruments, note_off_events, n, start_frame)
                   /\ note_off_events' = SubSeq(note_off_events, n + 1, Len(note_off_events))
                   /\ staleFired' = (staleFired \/
                          \E i \in 1..n : /\ note_off_events[i].stale
                                          /\ Fires(note_off_events[i], start_frame, end_frame))
              ELSE UNCHANGED << instruments, note_off_events, staleFired >>
    /\ lock' = "audio"
    /\ cbPc' = "ons"
    /\ UNCHANGED << composition, is_playing, stream, current_frame, event_counter,
                    ctlPc, ctlArgs, render, blocksRun, blockLog, noteOnLog, stoppedFrames, lastCtl >>
    /\ UNCHANGED << unitVars, cbOut, calcVars >>

\* Lines 86-122: note_on and note-off insertion for steps start_step..end_step.
CallbackNoteOns ==
    /\ cbPc = "ons"
    /\ LET start_frame == current_frame
           end_frame == start_frame + cbFrames
           sdf == cbSeen.step_duration_frames
           st0 == [instruments |-> instruments, queue |-> note_off_events,
                   counter |-> event_counter, log |-> noteOnLog,
                   raised |-> FALSE]
           st == IF sdf > 0
                 THEN TriggerSteps(st0, composition, start_frame \div sdf,
                                   end_frame \div sdf, cbSeen, start_frame, end_frame)
                 ELSE st0
       IN /\ instruments' = st.instruments
          /\ note_off_events' = st.queue
          /\ event_counter' = st.counter
          /\ noteOnLog' = st.log
    /\ cbPc' = "mix"
    /\ UNCHANGED << composition, is_playing, stream, current_frame, lock, cbFrames,
                    cbSeen, ctlPc, ctlArgs, render, blocksRun, blockLog, histVars >>
    /\ UNCHANGED << unitVars, cbOut, calcVars >>

\* A mix stage that writes the block and leaves the cursor where it was.
CallbackMix_KeepsCursor ==
    /\ cbPc = "mix"
    /\ instruments' = ProcessAll(instruments, cbFrames)
    /\ lock' = "free"
    /\ cbPc' = "idle"
    /\ cbFrames' = 0
    /\ cbSeen' = NotInCallback
    /\ blocksRun' = blocksRun + 1
    /\ blockLog' = Append(blockLog, [by |-> "callback", frames |-> cbFrames])
    /\ UNCHANGED << composition, is_playing, stream, current_frame, note_off_events,
                    event_counter, ctlPc, ctlArgs, render, noteOnLog, histVars >>
    /\ UNCHANGED << unitVars, cbOut, calcVars >>

\* Lines 127-152: process every instrument, advance the cursor, leave the lock.
CallbackMix ==
    /\ cbPc = "mix"
    /\ instruments' = ProcessAll(instruments, cbFrames)
    /\ current_frame' = current_frame + cbFrames
    /\ lock' = "free"
    /\ cbPc' = "idle"
    /\ cbFrames' = 0
    /\ cbSeen' = NotInCallback
    /\ blocksRun' = blocksRun + 1
    /\ blockLog' = Append(blockLog, [by |-> "callback", frames |-> cbFrames])
    /\ UNCHANGED << composition, is_playing, stream, note_off_events, event_counter,
                    ctlPc, ctlArgs, render, noteOnLog, histVars >>
    /\ UNCHANGED << unitVars, cbOut, calcVars >>

\* What instrument.process(frames) can do inside the try of lines 136-145:
\* return, raise before it has advanced its voices, or raise after.
MixOutcomes == {"returns", "raises_early", "raises_late"}

\* A mix loop that lets an instrument's exception out of the callback: the
\* with statement releases the lock, nothing is written, the cursor stays.
MixWith_Aborts(outcome) ==
    /\ cbPc = "mix"
    /\ instruments' = [id \in DOMAIN instruments |->
                          IF outcome[id] = "returns"
                          THEN InstrProcess(instruments[id], cbFrames)
                          ELSE instruments[id]]
    /\ IF \E id \in DOMAIN outcome : outcome[id] # "returns"
       THEN /\ UNCHANGED << current_frame, blocksRun, blockLog >>
            /\ cbOut' = [written |-> FALSE, frames |-> cbFrames, mixed |-> {},
                         raised |-> { id \in DOMAIN outcome : outcome[id] # "returns" }]
       ELSE /\ current_frame' = current_frame + cbFrames
            /\ blocksRun' = blocksRun + 1
            /\ blockLog' = Append(blockLog, [by |-> "callback", frames |-> cbFrames])
            /\ cbOut' = [written |-> TRUE, frames |-> cbFrames,
                         mixed |-> DOMAIN outcome, raised |-> {}]
    /\ lock' = "free"
    /\ cbPc' = "idle"
    /\ cbFrames' = 0
    /\ cbSeen' = NotInCallback
    /\ UNCHANGED << composition, is_playing, stream, note_off_events, event_counter,
                    ctlPc, ctlArgs, render, noteOnLog, histVars >>
    /\ UNCHANGED << unitVars, calcVars >>

\* Lines 127-152 with the given outcomes: process every instrument, each
\* inside its own try, write the buffer, advance the cursor, leave the lock.
MixWith(outcome) ==
    /\ cbPc = "mix"
    /\ instruments' = [id \in DOMAIN instruments |->
                          IF outcome[id] = "raises_early"
                          THEN instruments[id]
                          ELSE InstrProcess(instruments[id], cbFrames)]
    /\ cbOut' = [written |-> TRUE, frames |-> cbFrames,
                 mixed |-> { id \in DOMAIN outcome : outcome[id] = "returns" },
                 raised |-> { id \in DOMAIN outcome : outcome[id] # "returns" }]
    /\ current_frame' = current_frame + cbFrames
    /\ lock' = "free"
    /\ cbPc' = "idle"
    /\ cbFrames' = 0
    /\ cbSeen' = NotInCallback
    /\ blocksRun' = blocksRun + 1
    /\ blockLog' = Append(blockLog, [by |-> "callback", frames |-> cbFrames])
    /\ UNCHANGED << composition, is_playing, stream, note_off_events, event_counter,
                    ctlPc, ctlArgs, render, noteOnLog, histVars >>
    /\ UNCHANGED << unitVars, calcVars >>

\* Lines 127-152 when any instrument's process may raise.
CallbackMixFaulty ==
    /\ cbPc = "mix"
    /\ \E outcome \in [DOMAIN instruments -> MixOutcomes] : MixWith(outcome)

\* ------------------------------------------------------ Sequencer.play / stop
\* A play() that resets the cursor and keeps the queue.
PlayReset_KeepsQueue ==
    /\ current_frame' = 0
    /\ UNCHANGED note_off_events

\* Lines 166-167: the cursor and the note-off queue are reset.
PlayReset ==
    /\ current_frame' = 0
    /\ note_off_events' = <<>>

\* A play() that resets the cursor and the queue before its early returns.
Play_ResetsFirst ==
    /\ ctlPc = "idle"
    /\ IF is_playing \/ composition.tracks = <<>>
       THEN /\ lastCtl' = Returned("play_refused")
            /\ PlayReset
            /\ UNCHANGED << composition, instruments, is_playing, stream, event_counter,
                            lock, cbPc, cbFrames, cbSeen, ctlPc, ctlArgs,
                            render, blocksRun, blockLog, noteOnLog, staleFired, stoppedFrames >>
       ELSE /\ PlayReset
            /\ blocksRun' = 0
            /\ blockLog' = <<>>
            /\ noteOnLog' = <<>>
            /\ \E outcome \in {"started", "open_raises", "start_raises"} :
                 /\ stream' = CASE outcome = "started" -> "active"
                                [] outcome = "start_raises" -> "open"
                                [] OTHER -> stream
                 /\ is_playing' = (outcome = "started")
                 /\ lastCtl' = Returned(IF outcome = "started" THEN "play" ELSE "play_raised")
            /\ UNCHANGED << composition, instruments, event_counter, lock, cbPc,
                            cbFrames, cbSeen, ctlPc, ctlArgs, render, staleFired,
                            stoppedFrames >>
    /\ UNCHANGED << unitVars, cbOut, calcVars >>

\* Sequencer.play: the two early returns, then the reset and the stream; the
\* stream's construction or its start() can raise (no audio device).
Play ==
    /\ ctlPc = "idle"
    /\ IF is_playing \/ composition.tracks = <<>>
       THEN /\ lastCtl' = Returned("play_refused")
            /\ UNCHANGED << seqVars, lock, cbPc, cbFrames, cbSeen, ctlPc, ctlArgs,
                            render, blocksRun, blockLog, noteOnLog, staleFired, stoppedFrames >>
       ELSE /\ PlayReset
            /\ blocksRun' = 0
            /\ blockLog' = <<>>
            /\ noteOnLog' = <<>>
            /\ \E outcome \in {"started", "open_raises", "start_raises"} :
                 /\ stream' = CASE outcome = "started" -> "active"
                                [] outcome = "start_raises" -> "open"
                                [] OTHER -> stream
                 /\ is_playing' = (outcome = "started")
                 /\ lastCtl' = Returned(IF outcome = "started" THEN "play" ELSE "play_raised")
            /\ UNCHANGED << composition, instruments, event_counter, lock, cbPc,
                            cbFrames, cbSeen, ctlPc, ctlArgs, render, staleFired,
                            stoppedFrames >>
    /\ UNCHANGED << unitVars, cbOut, calcVars >>

\* A stop() that rewinds the cursor even when nothing is playing.
Stop_AlwaysRewinds ==
    /\ ctlPc = "idle"
    /\ IF ~is_playing
       THEN /\ lastCtl' = Returned("stop_refused")
            /\ current_frame' = 0
            /\ UNCHANGED << composition, instruments, is_playing, stream,
                            note_off_events, event_counter,
                            lock, cbPc, cbFrames, cbSeen, ctlPc, ctlArgs,
                            render, blocksRun, blockLog, noteOnLog, staleFired, stoppedFrames >>
       ELSE /\ cbPc = "idle"
            /\ stream' = "none"
            /\ is_playing' = FALSE
            /\ note_off_events' = [i \in 1..Len(note_off_events) |->
                                      [note_off_events[i] EXCEPT !.stale = TRUE]]
            /\ stoppedFrames' = { note_off_events[i].frame : i \in DOMAIN note_off_events }
            /\ instruments' = EndOfRun(instruments)
            /\ lastCtl' = Returned("stop")
            /\ UNCHANGED << composition, current_frame, event_counter,
                            lock, cbPc, cbFrames, cbSeen, ctlPc, ctlArgs, render,
                            blocksRun, blockLog, noteOnLog, staleFired >>
    /\ UNCHANGED << unitVars, cbOut, calcVars >>

\* Sequencer.stop: stream.stop() returns once the running callback is over.
\* The entries left in the queue are marked, to see later whether one fires.
Stop ==
    /\ ctlPc = "idle"
    /\ IF ~is_playing
       THEN /\ lastCtl' = Returned("stop_refused")
            /\ UNCHANGED << seqVars, lock, cbPc, cbFrames, cbSeen, ctlPc, ctlArgs,
                            render, blocksRun, blockLog, noteOnLog, staleFired, stoppedFrames >>
       ELSE /\ cbPc = "idle"
            /\ stream' = "none"
            /\ is_playing' = FALSE
            /\ note_off_events' = [i \in 1..Len(note_off_events) |->
                                      [note_off_events[i] EXCEPT !.stale = TRUE]]
            /\ stoppedFrames' = { note_off_events[i].frame : i \in DOMAIN note_off_events }
            /\ instruments' = EndOfRun(instruments)
            /\ lastCtl' = Returned("stop")
            /\ UNCHANGED << composition, current_frame, event_counter,
                            lock, cbPc, cbFrames, cbSeen, ctlPc, ctlArgs, render,
                            blocksRun, blockLog, noteOnLog, staleFired >>
    /\ UNCHANGED << unitVars, cbOut, calcVars >>

\* ------------------------------------------- Sequencer.update_composition
\* The arguments of the pending call: the engine passes either the very
\* object the sequencer already holds (edited in place) or a new one.
ArgComposition == IF ctlArgs.sameComposition THEN composition ELSE ctlArgs.composition
ArgInstruments == IF ctlArgs.sameInstruments THEN instruments ELSE ctlArgs.instruments

\* Line 28: with self._lock
UpdateEnter ==
    /\ ctlPc = "update"
    /\ lock = "free"
    /\ lock' = "control"
    /\ ctlPc' = "update_cs"
    /\ UNCHANGED << seqVars, cbPc, cbFrames, cbSeen, ctlArgs, render, blocksRun, blockLog,
                    noteOnLog, histVars >>
    /\ UNCHANGED << unitVars, cbOut, calcVars >>

\* An update_composition without the loop of lines 35-36.
UpdateKeepVoices(instrs) == instrs

\* Lines 35-36: for instrument in self.instruments.values(): active_notes.clear()
UpdateClearVoices(instrs) == ClearAll(instrs)

\* What the history keeps of an update_composition call.
UpdateReturned ==
    [op |-> "update", value |-> ReturnValue, hadVoices |-> HasVoices(ArgInstruments),
     hadQueue |-> note_off_events # <<>>, hadFrame |-> current_frame > 0]

\* An update_composition that stops playback when the new composition has
\* no tracks.
UpdateBody_StopsEmpty ==
    /\ ctlPc = "update_cs"
    /\ composition' = ArgComposition
    /\ instruments' = UpdateClearVoices(ArgInstruments)
    /\ current_frame' = 0
    /\ note_off_events' = <<>>
    /\ event_counter' = 0
    /\ lock' = "free"
    /\ ctlPc' = "idle"
    /\ ctlArgs' = NoArgs
    /\ blocksRun' = 0
    /\ blockLog' = <<>>
    /\ noteOnLog' = <<>>
    /\ stoppedFrames' = {}
    /\ lastCtl' = UpdateReturned
    /\ is_playing' = (is_playing /\ ArgComposition.tracks # <<>>)
    /\ stream' = IF ArgComposition.tracks # <<>> THEN stream ELSE "none"
    /\ UNCHANGED << cbPc, cbFrames, cbSeen, render, staleFired >>
    /\ UNCHANGED << unitVars, cbOut, calcVars >>

\* An update_composition that leaves the event counter running.
UpdateBody_KeepsCounter ==
    /\ ctlPc = "update_cs"
    /\ composition' = ArgComposition
    /\ instruments' = UpdateClearVoices(ArgInstruments)
    /\ current_frame' = 0
    /\ note_off_events' = <<>>
    /\ lock' = "free"
    /\ ctlPc' = "idle"
    /\ ctlArgs' = NoArgs
    /\ blocksRun' = 0
    /\ blockLog' = <<>>
    /\ noteOnLog' = <<>>
    /\ stoppedFrames' = {}
    /\ lastCtl' = UpdateReturned
    /\ UNCHANGED << is_playing, stream, event_counter, cbPc, cbFrames, cbSeen, render, staleFired >>
    /\ UNCHANGED << unitVars, cbOut, calcVars >>

\* Lines 29-36, and the lock's release.
UpdateBody ==
    /\ ctlPc = "update_cs"
    /\ composition' = ArgComposition
    /\ instruments' = UpdateClearVoices(ArgInstruments)
    /\ current_frame' = 0
    /\ note_off_events' = <<>>
    /\ event_counter' = 0
    /\ lock' = "free"
    /\ ctlPc' = "idle"
    /\ ctlArgs' = NoArgs
    /\ blocksRun' = 0
    /\ blockLog' = <<>>
    /\ noteOnLog' = <<>>
    /\ stoppedFrames' = {}
    /\ lastCtl' = UpdateReturned
    /\ UNCHANGED << is_playing, stream, cbPc, cbFrames, cbSeen, render, staleFired >>
    /\ UNCHANGED << unitVars, cbOut, calcVars >>

\* ------------------------------------------------ MusicEngine / VibeTrackerApp
\* Instrument.from_dict for every name: new objects, told apart from the
\* objects the sequencer's map holds under the same names.
FreshObject(id) == IF id \in DOMAIN instruments THEN 1 - instruments[id].obj ELSE 0

\* MusicEngine.update_composition_from_llm, lines 44-74: the new composition
\* is built aside, the new instruments are merged into the engine's dict,
\* which is the dict the sequencer holds; then (line 75) update_composition.
LLMUpdate ==
    /\ ctlPc = "idle"
    /\ \E data \in MusicData :
        /\ instruments' = [id \in DOMAIN instruments \cup data.instruments |->
                              IF id \in data.instruments
                              THEN NewInstrument(FreshObject(id))
                              ELSE instruments[id]]
        /\ ctlArgs' = [sameComposition |-> FALSE,
                       composition |-> CompositionFromDict(data),
                       sameInstruments |-> TRUE,
                       instruments |-> NoInstruments]
    /\ ctlPc' = "update"
    /\ UNCHANGED << composition, is_playing, stream, current_frame, note_off_events,
                    event_counter, lock, cbPc, cbFrames, cbSeen, render, blocksRun, blockLog,
                    noteOnLog, histVars >>
    /\ UNCHANGED << unitVars, cbOut, calcVars >>

\* VibeTrackerApp.worker_load_pattern (and the pattern branch of
\* worker_load_auto), lines 394-419: a default instrument is put into the
\* engine's dict if the id is new, the track is appended to the engine's
\* composition; both are the objects the sequencer holds.  Then lines 422-424.
LoadPattern ==
    /\ ctlPc = "idle"
    /\ Len(composition.tracks) < MaxTracks
    /\ \E p \in SavedPatterns :
        /\ instruments' = IF p.instrument_id \in DOMAIN instruments THEN instruments
                          ELSE [id \in DOMAIN instruments \cup {p.instrument_id} |->
                                   IF id = p.instrument_id THEN NewInstrument(0)
                                   ELSE instruments[id]]
        /\ composition' = [composition EXCEPT !.tracks =
                              Append(@, [instrument_id |-> p.instrument_id,
                                         patterns |-> << p.steps >>,
                                         sequence |-> << 0 >>])]
    /\ ctlArgs' = NoArgs
    /\ ctlPc' = "update"
    /\ UNCHANGED << is_playing, stream, current_frame, note_off_events, event_counter,
                    lock, cbPc, cbFrames, cbSeen, render, blocksRun, blockLog, noteOnLog,
                    histVars >>
    /\ UNCHANGED << unitVars, cbOut, calcVars >>

\* VibeTrackerApp.worker_load_composition (and the composition branch of
\* worker_load_auto): a new Composition and a new dict of new instruments
\* replace the engine's; the sequencer sees them only in update_composition.
LoadComposition ==
    /\ ctlPc = "idle"
    /\ \E data \in MusicData :
        ctlArgs' = [sameComposition |-> FALSE,
                    composition |-> CompositionFromDict(data),
                    sameInstruments |-> FALSE,
                    instruments |-> [id \in data.instruments |->
                                        NewInstrument(FreshObject(id))]]
    /\ ctlPc' = "update"
    /\ UNCHANGED << seqVars, lock, cbPc, cbFrames, cbSeen, render, blocksRun, blockLog,
                    noteOnLog, histVars >>
    /\ UNCHANGED << unitVars, cbOut, calcVars >>

\* ------------------------------------------------ render_composition_to_wav
\* Lines 47-61 for one track: the note-on and note-off entries of its first
\* pattern, by step.  "error" stands for the IndexError of pattern.steps[step]
\* when that pattern is shorter than the loop.
RECURSIVE TrackEvents(_, _, _, _, _)
TrackEvents(acc, track, step, loop, sdf) ==
    IF acc.error \/ step >= loop THEN acc
    ELSE LET pattern == track.patterns[1]
         IN IF step >= Len(pattern) THEN [acc EXCEPT !.error = TRUE]
            ELSE LET note_event == pattern[step + 1]
                     id == track.instrument_id
                     next ==
                       IF note_event.note = "" THEN acc
                       ELSE [acc EXCEPT
                               !.ons = Append(@, [frame |-> step * sdf,
                                                  instrument |-> id,
                                                  note |-> note_event.note,
                                                  velocity |-> note_event.velocity]),
                               !.offs = Append(@, [frame |-> step * sdf + note_event.duration * sdf,
                                                   instrument |-> id,
                                                   note |-> note_event.note])]
                 IN TrackEvents(next, track, step + 1, loop, sdf)

\* Lines 42-45: the tracks that have an instrument, patterns and a sequence.
RECURSIVE RenderEvents(_, _, _, _, _)
RenderEvents(acc, comp, instrs, t, sdf) ==
    IF acc.error \/ t > Len(comp.tracks) THEN acc
    ELSE LET track == comp.tracks[t]
             skip == \/ track.instrument_id \notin DOMAIN instrs
                     \/ track.patterns = <<>>
                     \/ track.sequence = <<>>
         IN RenderEvents(IF skip THEN acc
                         ELSE TrackEvents(acc, track, 0, TotalLoopSteps(comp), sdf),
                         comp, instrs, t + 1, sdf)

NoEvents == [ons |-> <<>>, offs |-> <<>>, error |-> FALSE]

\* Lines 25-36: the early returns.
RenderRefuses(comp) ==
    \/ StepDurationFrames(comp) = 0
    \/ PatternLengths(comp) = {}

\* Lines 74-85 for one frame: its note-ons in table order, then its note-offs.
RECURSIVE RenderOns(_, _, _)
RenderOns(instrs, ons, frame) ==
    IF ons = <<>> THEN instrs
    ELSE LET e == Head(ons)
         IN RenderOns(IF e.frame = frame
                      THEN [instrs EXCEPT ![e.instrument] =
                               InstrNoteOn(@, e.note, e.velocity, "render")]
                      ELSE instrs,
                      Tail(ons), frame)

RECURSIVE RenderOffs(_, _, _)
RenderOffs(instrs, offs, frame) ==
    IF offs = <<>> THEN instrs
    ELSE LET e == Head(offs)
         IN RenderOffs(IF e.frame = frame
                       THEN [instrs EXCEPT ![e.instrument] = InstrNoteOff(@, e.note)]
                       ELSE instrs,
                       Tail(offs), frame)

EventFrames(r, start_frame, end_frame) ==
    { f \in { r.ons[i].frame : i \in DOMAIN r.ons } \cup
             { r.offs[i].frame : i \in DOMAIN r.offs } :
        start_frame <= f /\ f < end_frame }

\* for frame in range(start_frame, end_frame): only frames with entries act.
RECURSIVE RenderFrames(_, _, _)
RenderFrames(instrs, r, frames) ==
    IF frames = {} THEN instrs
    ELSE LET f == CHOOSE x \in frames : \A y \in frames : x <= y
         IN RenderFrames(RenderOffs(RenderOns(instrs, r.ons, f), r.offs, f),
                         r, frames \ {f})

\* VibeTrackerApp.worker_export_wav -> render_composition_to_wav(engine's
\* composition, engine's instruments), lines 25-61: refusals and the tables.
ExportBegin ==
    /\ ctlPc = "idle"
    /\ composition.tracks # <<>>
    /\ LET sdf == StepDurationFrames(composition)
           ev == RenderEvents(NoEvents, composition, instruments, 1, sdf)
       IN IF RenderRefuses(composition) \/ ev.error
          THEN UNCHANGED << ctlPc, render >>
          ELSE /\ ctlPc' = "render"
               /\ render' = [ons |-> ev.ons, offs |-> ev.offs, pos |-> 0,
                             total |-> TotalLoopSteps(composition) * sdf,
                             chunks |-> 0]
    /\ UNCHANGED << seqVars, lock, cbPc, cbFrames, cbSeen, ctlArgs, blocksRun, blockLog,
                    noteOnLog, histVars >>
    /\ UNCHANGED << unitVars, cbOut, calcVars >>

\* Lines 67-93, one chunk: the chunk's events, then process on every
\* instrument of the dict; after the last chunk the render returns.
ExportChunk ==
    /\ ctlPc = "render"
    /\ render.chunks < MaxRenderChunks
    /\ LET start_frame == render.pos
           current_chunk_size == Min(buffer_size, render.total - start_frame)
           end_frame == start_frame + current_chunk_size
           acted == RenderFrames(instruments, render,
                                 EventFrames(render, start_frame, end_frame))
       IN /\ instruments' = ProcessAll(acted, current_chunk_size)
          /\ blockLog' = IF blockLog # <<>> /\ blockLog[Len(blockLog)].by = "render"
                         THEN blockLog
                         ELSE Append(blockLog, [by |-> "render", frames |-> 0])
          /\ IF end_frame >= render.total
             THEN /\ ctlPc' = "idle"
                  /\ render' = NoRender
             ELSE /\ ctlPc' = ctlPc
                  /\ render' = [render EXCEPT !.pos = end_frame, !.chunks = @ + 1]
    /\ UNCHANGED << composition, is_playing, stream, current_frame, note_off_events,
                    event_counter, lock, cbPc, cbFrames, cbSeen, ctlArgs, blocksRun,
                    noteOnLog, histVars >>
    /\ UNCHANGED << unitVars, cbOut, calcVars >>

\* ------------------------------------------------------------ specification
Next ==
    \/ CallbackEnter
    \/ CallbackNoteOns
    \/ CallbackMix
    \/ Play
    \/ Stop
    \/ UpdateEnter
    \/ UpdateBody
    \/ LLMUpdate
    \/ LoadPattern
    \/ LoadComposition
    \/ ExportBegin
    \/ ExportChunk

Spec == Init /\ [][Next]_vars

\* The sequencer loaded, played and stopped while its instruments may raise
\* inside the callback.
FaultNext ==
    \/ CallbackEnter
    \/ CallbackNoteOns
    \/ CallbackMixFaulty
    \/ Play
    \/ Stop
    \/ UpdateEnter
    \/ UpdateBody
    \/ LoadPattern
    \/ LoadComposition

FaultSpec == Init /\ [][FaultNext]_vars

\* ---------------------------- step 1c of the callback, one step at a time
\* Tracks as the pattern library and the public dataclasses can build them:
\* patterns of three and of four steps, a track with two patterns in its
\* sequence, a track whose sequence points past its patterns, and a track
\* ("ghost") whose instrument_id is in no instrument map.
ScheduleTracks ==
    { [instrument_id |-> "bass",
       patterns |-> << << NoteEvent("A1", 100, 1), None, NoteEvent("E1", 100, 2) >> >>,
       sequence |-> << 0 >>],
      [instrument_id |-> "pad",
       patterns |-> << << NoteEvent("C3", 80, 1), None, NoteEvent("G3", 80, 1), None >> >>,
       sequence |-> << 0 >>],
      [instrument_id |-> "lead",
       patterns |-> << << NoteEvent("C4", 100, 1), None >>, << None, NoteEvent("D4", 100, 1) >> >>,
       sequence |-> << 0, 1 >>],
      [instrument_id |-> "lead",
       patterns |-> << << NoteEvent("C4", 100, 1) >> >>,
       sequence |-> << 1 >>],
      [instrument_id |-> "ghost",
       patterns |-> << << NoteEvent("F2", 100, 1), None, None, NoteEvent("F2", 100, 1) >> >>,
       sequence |-> << 0 >>] }

ScheduleInstruments == [id \in {"bass", "pad", "lead"} |-> NewInstrument(0)]

ScheduleCompositions ==
    { [bpm |-> 120, tracks |-> << a >>] : a \in ScheduleTracks } \cup
    { [bpm |-> 120, tracks |-> << a, b >>] : a \in ScheduleTracks, b \in ScheduleTracks }

\* The absolute steps looked at.
MaxStep == 12

\* What the callback has computed when it reaches step 1c.
CallbackSees(comp, instrs) ==
    [composition |-> comp, objects |-> ObjectsOf(instrs),
     step_duration_frames |-> StepDurationFrames(comp),
     total_loop_steps |-> TotalLoopSteps(comp)]

\* The inner loop of step 1c (all tracks) for one step, on a sequencer with
\* an empty queue and silent instruments.
ScheduleOneStep(comp, instrs, step) ==
    LET cb == CallbackSees(comp, instrs)
        start_frame == step * cb.step_duration_frames
    IN TriggerTracks([instruments |-> instrs, queue |-> <<>>, counter |-> 0, log |-> <<>>,
                      raised |-> FALSE],
                     comp, step, 1, cb, start_frame, start_frame + 1)

\* Tracks whose sequence entry is no index from the front of the pattern
\* list: past the end, negative but in range for list indexing, negative
\* and out of range; and a track that is in order.
IndexTracks ==
    { [instrument_id |-> "lead",
       patterns |-> << << NoteEvent("C4", 100, 1), None >>, << NoteEvent("D4", 100, 1), None >> >>,
       sequence |-> << i >>] : i \in {2, -1, -3} } \cup
    { [instrument_id |-> "bass",
       patterns |-> << << NoteEvent("A1", 100, 1), NoteEvent("E1", 100, 2) >> >>,
       sequence |-> << 0 >>] }

IndexCompositions ==
    { [bpm |-> 120, tracks |-> << a >>] : a \in IndexTracks } \cup
    { [bpm |-> 120, tracks |-> << a, b >>] : a \in IndexTracks, b \in IndexTracks }

ScheduleInit ==
    /\ ModelInit
    /\ calcIn \in [fn : {"schedule"}, composition : ScheduleCompositions, step : 0..MaxStep]
                  \cup [fn : {"index"}, composition : IndexCompositions, step : 0..MaxStep]
    /\ calcOut = NoCalc

ScheduleStep ==
    /\ calcIn.fn \in {"schedule", "index"} /\ calcOut = NoCalc
    /\ calcOut' = [fn |-> calcIn.fn,
                   st |-> ScheduleOneStep(calcIn.composition, ScheduleInstruments, calcIn.step)]
    /\ UNCHANGED << modelVars, calcIn >>

ScheduleNext == ScheduleStep

ScheduleSpec == ScheduleInit /\ [][ScheduleNext]_vars

\* ----------------------------------- Composition.to_dict / from_dict alone
\* Tracks a composition of the program holds: what Track.from_dict builds
\* from an answer or a saved composition (one 64-step pattern), and what
\* load_pattern_to_track builds from a library pattern (the saved steps,
\* of any length).
RecordTracks ==
    { TrackFromDict(data.tracks[i]) : data \in {KickData, TracksOnlyData},
                                       i \in {1} } \cup
    { TrackFromDict([instrument_name |-> "hat",
                     notes |-> << [note |-> "F#3", velocity |-> 60, step |-> 63] >>]) } \cup
    { [instrument_id |-> p.instrument_id, patterns |-> << p.steps >>, sequence |-> << 0 >>] :
         p \in SavedPatterns } \cup
    { [instrument_id |-> "pad",
       patterns |-> << [i \in 1..STEPS_PER_PATTERN |->
                          IF i = 1 THEN NoteEvent("C3", 80, 4) ELSE None] >>,
       sequence |-> << 0 >>] }

RecordBpms == {90, 120, 150}

RecordCompositions ==
    { [bpm |-> b, tracks |-> <<>>] : b \in RecordBpms } \cup
    { [bpm |-> b, tracks |-> << t >>] : b \in RecordBpms, t \in RecordTracks } \cup
    { [bpm |-> b, tracks |-> << t, u >>] : b \in RecordBpms, t \in RecordTracks,
                                          u \in RecordTracks }

RecordInit ==
    /\ ModelInit
    /\ calcIn \in [fn : {"record"}, composition : RecordCompositions]
    /\ calcOut = NoCalc

\* data = composition.to_dict(); Composition.from_dict(data)
RecordRoundTrip ==
    /\ calcIn.fn = "record" /\ calcOut = NoCalc
    /\ LET data == CompositionToDict(calcIn.composition)
       IN calcOut' = [fn |-> "record", data |-> data, back |-> CompositionFromDict(data)]
    /\ UNCHANGED << modelVars, calcIn >>

RecordNext == RecordRoundTrip

RecordSpec == RecordInit /\ [][RecordNext]_vars

\* ------------------------------------ Instrument.to_dict / from_dict alone
\* Numbers are in thousandths (room_size 0.5 is 500, attack 0.01 is 10); a
\* dict is a function from its keys.
\* ReverbEffect.get_default_params
ReverbDefaults == [room_size |-> 500, damping |-> 500, wet_level |-> 300, dry_level |-> 700]

\* BaseEffect.__init__ that keeps only the parameters it was given.
ReverbEffect_KeepsGiven(params) ==
    [effect_type |-> "reverb",
     enabled |-> IF "enabled" \in DOMAIN params THEN params["enabled"] ELSE TRUE,
     params |-> params]

\* ReverbEffect(**params) -> BaseEffect.__init__("reverb", **params):
\* enabled is params.get('enabled', True); params are the defaults updated
\* with the given ones.
ReverbEffect(params) ==
    [effect_type |-> "reverb",
     enabled |-> IF "enabled" \in DOMAIN params THEN params["enabled"] ELSE TRUE,
     params |-> [k \in DOMAIN ReverbDefaults \cup DOMAIN params |->
                    IF k \in DOMAIN params THEN params[k] ELSE ReverbDefaults[k]]]

\* BaseEffect.to_dict: type, enabled, and every parameter other than
\* 'enabled' that is not a default or differs from its default.
EffectToDict(effect) ==
    LET kept == { k \in DOMAIN effect.params \ {"enabled"} :
                     k \notin DOMAIN ReverbDefaults \/ ReverbDefaults[k] # effect.params[k] }
        \* result[key] = value also overwrites 'type' when 'type' is a parameter
        keys == {"type", "enabled"} \cup kept
    IN [k \in keys |-> IF k \in kept THEN effect.params[k]
                       ELSE IF k = "type" THEN effect.effect_type
                       ELSE effect.enabled]

\* ReverbEffect.from_dict: every key but 'type' is a parameter.
ReverbFromDict(data) == ReverbEffect([k \in DOMAIN data \ {"type"} |-> data[k]])

\* create_effects_from_list over BaseEffect.from_dict: a record whose type
\* is not 'reverb' raises ValueError, is logged and left out.
RECURSIVE create_effects_from_list(_)
create_effects_from_list(effects_data) ==
    IF effects_data = <<>> THEN <<>>
    ELSE LET data == Head(effects_data)
             rest == create_effects_from_list(Tail(effects_data))
         IN IF "type" \in DOMAIN data /\ data["type"] = "reverb"
            THEN << ReverbFromDict(data) >> \o rest
            ELSE rest

DefaultOscillators == << [waveform |-> "sine", amplitude |-> 1000] >>

\* Instrument.__init__ (oscillators given; None is replaced by the caller's
\* default below)
Instrument(name, oscillators, attack, decay, sustain_level, release, filter_type, filter_cutoff_hz, filter_resonance_q, effects) ==
    [name |-> name, oscillators |-> oscillators, attack |-> attack, decay |-> decay,
     sustain_level |-> sustain_level, release |-> release, filter_type |-> filter_type,
     filter_cutoff_hz |-> filter_cutoff_hz, filter_resonance_q |-> filter_resonance_q,
     effects |-> create_effects_from_list(effects), active_notes |-> <<>>]

\* Instrument.to_dict: the nine parameters, and 'effects' only when the
\* instrument has any.
InstrumentToDict(inst) ==
    LET result == [name |-> inst.name, oscillators |-> inst.oscillators,
                   attack |-> inst.attack, decay |-> inst.decay,
                   sustain_level |-> inst.sustain_level, release |-> inst.release,
                   filter_type |-> inst.filter_type,
                   filter_cutoff_hz |-> inst.filter_cutoff_hz,
                   filter_resonance_q |-> inst.filter_resonance_q]
    IN IF inst.effects # <<>>
       THEN result @@ [effects |-> [i \in 1..Len(inst.effects) |->
                                       EffectToDict(inst.effects[i])]]
       ELSE result

\* data.get(key, default)
Get(data, key, default) == IF key \in DOMAIN data THEN data[key] ELSE default

\* Instrument.from_dict
InstrumentFromDict(data) ==
    Instrument(Get(data, "name", "default"),
               IF "oscillators" \in DOMAIN data THEN data["oscillators"]
               ELSE << [waveform |-> Get(data, "waveform", "sine"), amplitude |-> 1000] >>,
               Get(data, "attack", 10), Get(data, "decay", 100),
               Get(data, "sustain_level", 700), Get(data, "release", 200),
               Get(data, "filter_type", "None"), Get(data, "filter_cutoff_hz", 20000000),
               Get(data, "filter_resonance_q", 707), Get(data, "effects", <<>>))

\* Effect records an answer or a saved instrument can hold: defaults only,
\* disabled, changed parameters, a parameter given at its default, a
\* parameter the reverb does not know, and a type that does not exist.
EffectData ==
    { [type |-> "reverb"],
      [type |-> "reverb", enabled |-> FALSE],
      [type |-> "reverb", room_size |-> 800, wet_level |-> 0],
      [type |-> "reverb", room_size |-> 500, dry_level |-> 1000],
      [type |-> "reverb", pre_delay |-> 20],
      [type |-> "delay", time |-> 250] }

EffectLists ==
    { <<>> } \cup { << a >> : a \in EffectData } \cup
    { << a, b >> : a \in EffectData, b \in EffectData }

\* Instrument records an answer or a saved composition can hold.
InstrumentData ==
    { [name |-> "kick"] @@ [effects |-> e] : e \in EffectLists } \cup
    { [name |-> "pad",
       oscillators |-> << [waveform |-> "sawtooth", amplitude |-> 800],
                          [waveform |-> "square", amplitude |-> 300] >>,
       attack |-> 20, decay |-> 100, sustain_level |-> 600, release |-> 300,
       filter_type |-> "lowpass", filter_cutoff_hz |-> 1200000,
       filter_resonance_q |-> 1500, effects |-> e] : e \in EffectLists } \cup
    { [waveform |-> "square"], [name |-> "lead", attack |-> 5] }

SerialInit ==
    /\ ModelInit
    /\ calcIn \in { [fn |-> "instrument", instrument |-> InstrumentFromDict(data)] :
                       data \in InstrumentData }
    /\ calcOut = NoCalc

\* data = instrument.to_dict(); Instrument.from_dict(data)
SerialRoundTrip ==
    /\ calcIn.fn = "instrument" /\ calcOut = NoCalc
    /\ LET data == InstrumentToDict(calcIn.instrument)
       IN calcOut' = [fn |-> "instrument", data |-> data, back |-> InstrumentFromDict(data)]
    /\ UNCHANGED << modelVars, calcIn >>

SerialNext == SerialRoundTrip

SerialSpec == SerialInit /\ [][SerialNext]_vars

\* ------------------------------------------------------ the envelope alone
\* ActiveNote._generate_envelope_block: the sample at index i of a block,
\* current_level +/- i * rate, clipped.
EnvelopeSample(v, i) ==
    CASE v.state = "off" -> 0
      [] v.state = "sustain" -> SustainLevel
      [] v.state = "attack" -> Min(v.level + i * attack_rate, LevelOne)
      [] v.state = "decay" -> Max(v.level - i * decay_rate, SustainLevel)
      [] v.state = "release" -> Max(v.level - i * v.release_rate, 0)

\* The block _generate_envelope_block returns.
EnvelopeSamples(v, num_samples) == [i \in 1..num_samples |-> EnvelopeSample(v, i - 1)]

\* One iteration of the generator ADSREnvelope.process.
EnvelopeStep(v) ==
    CASE v.state = "attack" ->
            IF v.level + attack_rate >= LevelOne
            THEN [v EXCEPT !.level = LevelOne, !.state = "decay"]
            ELSE [v EXCEPT !.level = v.level + attack_rate]
      [] v.state = "decay" ->
            IF v.level - decay_rate <= SustainLevel
            THEN [v EXCEPT !.level = SustainLevel, !.state = "sustain"]
            ELSE [v EXCEPT !.level = v.level - decay_rate]
      [] v.state = "sustain" -> [v EXCEPT !.level = SustainLevel]
      [] v.state = "release" ->
            IF v.level - v.release_rate <= 0
            THEN [v EXCEPT !.level = 0, !.state = "off"]
            ELSE [v EXCEPT !.level = v.level - v.release_rate]
      [] v.state = "off" -> [v EXCEPT !.level = 0]

\* n values taken from the generator: the values and the envelope after them.
RECURSIVE EnvelopeSteps(_, _)
EnvelopeSteps(run, n) ==
    IF n = 0 THEN run
    ELSE LET next == EnvelopeStep(run.v)
         IN EnvelopeSteps([v |-> next, values |-> Append(run.values, next.level)], n - 1)

\* One more block: the values returned so far and the envelope after it.
EnvelopeBlock(run, num_samples) ==
    [v |-> GenerateEnvelopeBlock(run.v, num_samples),
     values |-> run.values \o EnvelopeSamples(run.v, num_samples)]

\* The blocks of a list, in order, as far as the envelope's state goes.
RECURSIVE RunBlocks(_, _)
RunBlocks(v, blocks) ==
    IF blocks = <<>> THEN v
    ELSE RunBlocks(GenerateEnvelopeBlock(v, Head(blocks)), Tail(blocks))

\* A voice with the given stored envelope.
Stored(state, level) ==
    [ActiveNote("C4", 100, "unit") EXCEPT !.state = state, !.level = level]

\* Stored (level, state) pairs the envelope passes through: each stage at
\* its start and a few samples before its end.
EnvelopeStates ==
    { Stored("attack", 0), Stored("attack", LevelOne - 2 * attack_rate),
      Stored("decay", LevelOne), Stored("decay", SustainLevel + 2 * decay_rate),
      Stored("sustain", SustainLevel),
      EnvelopeNoteOff(Stored("sustain", SustainLevel)),
      [EnvelopeNoteOff(Stored("decay", LevelOne)) EXCEPT !.level = 3 * (LevelOne \div ReleaseSamples)],
      Stored("off", 0) }

\* The longest block of the comparison.
MaxBlockLen == 4

\* Levels a note_off can find: every level the envelope stores is a whole
\* number of release slopes.
ReleaseLevels ==
    { LevelOne, SustainLevel, attack_rate, 220 * attack_rate,
      LevelOne - 300 * decay_rate, SustainLevel + decay_rate }

\* Ways the driver can split the ReleaseSamples samples after a note_off.
ReleaseSplits ==
    { << ReleaseSamples >>,
      << ReleaseSamples \div 2, ReleaseSamples \div 2 >>,
      << 6000, ReleaseSamples - 6000 >>,
      << 2940, 2940, 2940 >>,
      << 512, 512, 512, 512, 512, 512, 512, 512, 512, 512, 512, 512, 512, 512, 512, 512,
         512, ReleaseSamples - 17 * 512 >>,
      << ReleaseSamples - 1, 1 >>,
      << 1, ReleaseSamples - 1 >> }

EnvelopeInit ==
    /\ ModelInit
    /\ calcIn \in [fn : {"envelope"}, v : EnvelopeStates,
                    N : 1..MaxBlockLen, M : 1..MaxBlockLen]
                  \cup [fn : {"release"}, level : ReleaseLevels, blocks : ReleaseSplits]
    /\ calcOut = NoCalc

\* process(N); process(M) beside process(N+M) beside N+M values of the
\* generator, all from the same stored envelope.
EnvelopeCompare ==
    /\ calcIn.fn = "envelope" /\ calcOut = NoCalc
    /\ LET start == [v |-> calcIn.v, values |-> <<>>]
       IN calcOut' = [fn |-> "envelope",
                      split |-> EnvelopeBlock(EnvelopeBlock(start, calcIn.N), calcIn.M),
                      whole |-> EnvelopeBlock(start, calcIn.N + calcIn.M),
                      single |-> EnvelopeSteps(start, calcIn.N + calcIn.M)]
    /\ UNCHANGED << modelVars, calcIn >>

\* note_off() at the given level, then the blocks of the split.
ReleaseRun ==
    /\ calcIn.fn = "release" /\ calcOut = NoCalc
    /\ LET released == EnvelopeNoteOff(Stored("sustain", calcIn.level))
       IN calcOut' = [fn |-> "release",
                      first |-> EnvelopeSample(released, 0),
                      v |-> RunBlocks(released, calcIn.blocks)]
    /\ UNCHANGED << modelVars, calcIn >>

EnvelopeNext == EnvelopeCompare \/ ReleaseRun

EnvelopeSpec == EnvelopeInit /\ [][EnvelopeNext]_vars

\* ------------------------------------------------- ReverbEffect.process alone
\* Samples, levels and coefficients are in ten-thousandths (0.95 is 9500).
Unit == 10000

base_delays == << 1116, 1188, 1277, 1356, 1422, 1491, 1557, 1617 >>

Lines == 1..Len(base_delays)

\* A limiter that lets every value through.
Unlimited(x, lo, hi) == x

\* np.clip(x, lo, hi), and the if/elif limiters of process
Clip(x, lo, hi) == IF x < lo THEN lo ELSE IF x > hi THEN hi ELSE x

\* np.zeros(length)
RECURSIVE Zeros(_)
Zeros(length) ==
    IF length = 0 THEN <<>>
    ELSE IF length % 2 = 1 THEN Append(Zeros(length - 1), 0)
    ELSE LET half == Zeros(length \div 2) IN half \o half

\* ReverbEffect._initialize_effect: delay lines of int(delay * room_scale)
\* zeros, room_scale = 0.5 + room_size * 0.5; feedback = 0.7 + room_size * 0.2;
\* damping_coeff = damping * 0.5.
InitializeEffect(params) ==
    LET room_scale == Unit \div 2 + params.room_size \div 2
    IN [enabled |-> params.enabled,
        wet_level |-> params.wet_level,
        dry_level |-> params.dry_level,
        delay_buffers |-> [j \in Lines |-> Zeros((base_delays[j] * room_scale) \div Unit)],
        delay_indices |-> [j \in Lines |-> 0],
        feedback |-> (Unit \div 10) * 7 + params.room_size \div 5,
        damping_coeff |-> params.damping \div 2,
        lowpass_state |-> [j \in Lines |-> 0]]

\* A delay line whose pointer is never advanced.
LineStep_PointerStuck(fx, j, sample) ==
    LET buffer == fx.delay_buffers[j]
        index == fx.delay_indices[j]
        delayed == buffer[index + 1]
        lowpass == (delayed * (Unit - fx.damping_coeff)
                      + fx.lowpass_state[j] * fx.damping_coeff) \div Unit
        feedback == Clip((lowpass * fx.feedback) \div Unit, -8000, 8000)
    IN [buffer |-> [buffer EXCEPT ![index + 1] = sample + feedback],
        index |-> index,
        lowpass |-> lowpass,
        feedback |-> feedback,
        out |-> (delayed * (1250 + (j - 1) * 100)) \div Unit]

\* The body of the inner loop for delay line j: read, damp, limit the
\* feedback, write sample + feedback, advance the pointer.
LineStep(fx, j, sample) ==
    LET buffer == fx.delay_buffers[j]
        index == fx.delay_indices[j]
        delayed == buffer[index + 1]
        lowpass == (delayed * (Unit - fx.damping_coeff)
                      + fx.lowpass_state[j] * fx.damping_coeff) \div Unit
        feedback == Clip((lowpass * fx.feedback) \div Unit, -8000, 8000)
    IN [buffer |-> [buffer EXCEPT ![index + 1] = sample + feedback],
        index |-> (index + 1) % Len(buffer),
        lowpass |-> lowpass,
        feedback |-> feedback,
        \* delayed * gain, gain = 0.125 + j * 0.01 with j counted from 0
        out |-> (delayed * (1250 + (j - 1) * 100)) \div Unit]

\* The inner loop over the delay lines 1..j: one LineStep result per line.
RECURSIVE LineSteps(_, _, _)
LineSteps(fx, sample, j) ==
    IF j = 0 THEN <<>>
    ELSE Append(LineSteps(fx, sample, j - 1), LineStep(fx, j, sample))

\* One field of the results, line by line.
RECURSIVE Column(_, _, _)
Column(steps, field, j) ==
    IF j = 0 THEN <<>> ELSE Append(Column(steps, field, j - 1), steps[j][field])

\* reverb_sum
RECURSIVE SumLines(_, _)
SumLines(steps, j) == IF j = 0 THEN 0 ELSE steps[j].out + SumLines(steps, j - 1)

\* The least and the greatest feedback of the lines 1..j, and of what was
\* seen before.
RECURSIVE FeedbackRange(_, _, _)
FeedbackRange(steps, j, seen) ==
    IF j = 0 THEN seen
    ELSE LET rest == FeedbackRange(steps, j - 1, seen)
         IN [lo |-> Min(rest.lo, steps[j].feedback),
             hi |-> Max(rest.hi, steps[j].feedback)]

\* An output sample that adds the reverb to the input whatever the levels.
MixDryWet_IgnoresLevels(dry_level, wet_level, sample, reverb_sample) ==
    Clip(sample + reverb_sample, -9500, 9500)

\* output[i] = dry_level * sample + wet_level * reverb_sample, then the
\* final limiting to +/-0.95.
MixDryWet(dry_level, wet_level, sample, reverb_sample) ==
    Clip((dry_level * sample + wet_level * reverb_sample) \div Unit, -9500, 9500)

\* The body of the outer loop for one input sample.
ReverbSampleStep(fx, x) ==
    LET sample == Clip(x, -9500, 9500)
        n == Len(base_delays)
        steps == LineSteps(fx, sample, n)
        reverb_sample == (SumLines(steps, n) * 7) \div 10
    IN [fx |-> [fx EXCEPT !.delay_buffers = Column(steps, "buffer", n),
                          !.delay_indices = Column(steps, "index", n),
                          !.lowpass_state = Column(steps, "lowpass", n)],
        reverb_sample |-> reverb_sample,
        steps |-> steps,
        output |-> MixDryWet(fx.dry_level, fx.wet_level, sample, reverb_sample)]

\* The outer loop over the samples lo..hi of the block, in order (the
\* range is halved so that the evaluation stays shallow).
RECURSIVE ReverbLoop(_, _, _, _)
ReverbLoop(run, audio_buffer, lo, hi) ==
    IF lo > hi THEN run
    ELSE IF lo = hi
    THEN LET step == ReverbSampleStep(run.fx, audio_buffer[lo])
         IN [fx |-> step.fx,
             output |-> Append(run.output, step.output),
             reverb |-> Append(run.reverb, step.reverb_sample),
             feedback |-> FeedbackRange(step.steps, Len(base_delays), run.feedback)]
    ELSE LET mid == (lo + hi) \div 2
             first == ReverbLoop(run, audio_buffer, lo, mid)
         IN IF Len(first.output) = Len(run.output) THEN run
            ELSE ReverbLoop(first, audio_buffer, mid + 1, hi)

\* ReverbEffect.process: a disabled effect returns its input and touches
\* nothing.  `reverb` keeps the reverb_sample of every sample, `feedback`
\* the range of the feedback values written into the delay lines.
ReverbProcess(fx, audio_buffer) ==
    LET none == [lo |-> 0, hi |-> 0]
    IN IF ~fx.enabled
       THEN [fx |-> fx, output |-> audio_buffer, reverb |-> <<>>, feedback |-> none]
       ELSE ReverbLoop([fx |-> fx, output |-> <<>>, reverb |-> <<>>, feedback |-> none],
                       audio_buffer, 1, Len(audio_buffer))

\* The length and the pointer of every delay line.
Cursors(fx) ==
    [lengths |-> [j \in Lines |-> Len(fx.delay_buffers[j])],
     indices |-> [j \in Lines |-> fx.delay_indices[j]]]

\* BaseEffect.set_param: 'enabled' only sets the flag, any other parameter
\* runs _initialize_effect again.
SetParam(params, cursors, param_name, value) ==
    IF param_name = "enabled" THEN cursors
    ELSE Cursors(InitializeEffect([params EXCEPT ![param_name] = value]))

\* Earlier blocks, in order: only what they leave in the effect matters.
RECURSIVE ReverbHistory(_, _)
ReverbHistory(fx, blocks) ==
    IF blocks = <<>> THEN fx
    ELSE ReverbHistory(ReverbProcess(fx, Head(blocks)).fx, Tail(blocks))

\* The samples of a block of a given shape, length and amplitude.
Shaped(shape, n, amp) ==
    [i \in 1..n |-> CASE shape = "const" -> amp
                      [] shape = "alt" -> IF i % 2 = 1 THEN amp ELSE -amp
                      [] shape = "impulse" -> IF i = 1 THEN amp ELSE 0]

\* Earlier blocks are long enough for the shortest delay lines to wrap,
\* and loud enough to be clipped on the way in.
HistoryLen == 600
HistoryBlocks == { Shaped("const", HistoryLen, 20000), Shaped("alt", HistoryLen, -9500) }

\* The number of earlier blocks.
MaxHistory == 2

Histories == UNION { [1..n -> HistoryBlocks] : n \in 0..MaxHistory }

\* Blocks with every sample within +/-0.95.
BlockLen == 48
InputBlocks ==
    { Shaped(shape, BlockLen, amp) : shape \in {"const", "alt", "impulse"},
                                     amp \in {-9500, -3000, 1, 9500} }
    \cup { Shaped("const", BlockLen, 0) }

ReverbParams ==
    [enabled : BOOLEAN, room_size : {0}, damping : {5000},
     wet_level : {0}, dry_level : {Unit}]
    \cup [enabled : {TRUE}, room_size : {0, 5000}, damping : {5000},
          wet_level : {3000}, dry_level : {7000}]
    \cup [enabled : {TRUE}, room_size : {0}, damping : {0},
          wet_level : {2 * Unit}, dry_level : {2 * Unit}]

\* The parameter changes made after a block.
ParamChanges ==
    [name : {"enabled"}, value : BOOLEAN]
    \cup [name : {"room_size"}, value : {0, Unit}]
    \cup [name : {"wet_level"}, value : {3000}]

ReverbInit ==
    /\ ModelInit
    /\ calcIn \in [fn : {"reverb"}, params : ReverbParams, history : Histories,
                    block : InputBlocks]
    /\ calcOut = NoCalc

\* What a process call returned and wrote, and the delay lines before and
\* after it.
ReverbResult(before, run) ==
    [fn |-> "reverb", output |-> run.output, reverb |-> run.reverb,
     feedback |-> run.feedback, before |-> before, after |-> Cursors(run.fx)]

\* effect.process(audio_buffer), observed
ReverbBlock(fx, audio_buffer) ==
    ReverbResult(Cursors(fx), ReverbProcess(fx, audio_buffer))

\* effect = ReverbEffect(**params); the earlier blocks; effect.process(block)
ReverbRun ==
    /\ calcIn.fn = "reverb" /\ calcOut = NoCalc
    /\ calcOut' = ReverbBlock(ReverbHistory(InitializeEffect(calcIn.params),
                                            calcIn.history), calcIn.block)
    /\ UNCHANGED << modelVars, calcIn >>

\* effect.set_param(name, value) after the block
ReverbSetParam ==
    /\ calcOut.fn = "reverb"
    /\ \E change \in ParamChanges :
          calcOut' = [fn |-> "set_param", param_name |-> change.name,
                      before |-> calcOut.after,
                      after |-> SetParam(calcIn.params, calcOut.after,
                                         change.name, change.value)]
    /\ UNCHANGED << modelVars, calcIn >>

ReverbNext == ReverbRun \/ ReverbSetParam

ReverbSpec == ReverbInit /\ [][ReverbNext]_vars

\* ------------------------------------------------ a released voice, drained
\* One voice is started, held for a few blocks, released, and then only
\* Instrument.process(N) is called, always with the same block size.
DrainBlockSizes == {1, 64, 512, 6000}

\* The block size while the note is held.
HoldBlockSizes == {512, 6000}

\* The most blocks the voice is held for before its note_off.
MaxHold == 3

DrainInit ==
    /\ ModelInit
    /\ calcIn \in [fn : {"drain"}, hold : HoldBlockSizes, N : DrainBlockSizes]
    /\ calcOut = NoCalc

\* Instrument.note_on('C4')
DrainNoteOn ==
    /\ calcIn.fn = "drain" /\ calcOut = NoCalc
    /\ unit' = InstrNoteOn(unit, "C4", 100, "unit")
    /\ calcOut' = [fn |-> "drain", phase |-> "held", calls |-> 0]
    /\ UNCHANGED << seqVars, lock, cbPc, cbFrames, cbSeen, ctlPc, ctlArgs, render,
                    blocksRun, blockLog, noteOnLog, histVars, cbOut, unitCall, calcIn >>

\* Instrument.process(num_samples) while the note is held
DrainHold ==
    /\ calcOut.fn = "drain" /\ calcOut.phase = "held" /\ calcOut.calls < MaxHold
    /\ unit' = InstrProcess(unit, calcIn.hold)
    /\ calcOut' = [calcOut EXCEPT !.calls = @ + 1]
    /\ UNCHANGED << seqVars, lock, cbPc, cbFrames, cbSeen, ctlPc, ctlArgs, render,
                    blocksRun, blockLog, noteOnLog, histVars, cbOut, unitCall, calcIn >>

\* Instrument.note_off('C4')
DrainNoteOff ==
    /\ calcOut.fn = "drain" /\ calcOut.phase = "held"
    /\ unit' = InstrNoteOff(unit, "C4")
    /\ calcOut' = [calcOut EXCEPT !.phase = "released"]
    /\ UNCHANGED << seqVars, lock, cbPc, cbFrames, cbSeen, ctlPc, ctlArgs, render,
                    blocksRun, blockLog, noteOnLog, histVars, cbOut, unitCall, calcIn >>

\* Instrument.process(N) after the note_off
DrainProcess ==
    /\ calcOut.fn = "drain" /\ calcOut.phase = "released"
    /\ unit' = InstrProcess(unit, calcIn.N)
    /\ UNCHANGED << seqVars, lock, cbPc, cbFrames, cbSeen, ctlPc, ctlArgs, render,
                    blocksRun, blockLog, noteOnLog, histVars, cbOut, unitCall, calcVars >>

DrainNext ==
    \/ DrainNoteOn
    \/ DrainHold
    \/ DrainNoteOff
    \/ DrainProcess

\* The caller keeps calling process() for as long as a call changes anything.
DrainSpec == DrainInit /\ [][DrainNext]_vars /\ WF_vars(DrainProcess)

\* ------------------------------------------- an Instrument driven on its own
Called(op, note) ==
    [NoCall EXCEPT !.op = op, !.note = note, !.before = unit.active_notes,
                   !.afterEffectFault = (unitCall.raisingEffects # {})]

\* Instrument.note_on(note_name, velocity)
UnitNoteOn ==
    /\ \E note_name \in UnitPitches :
         /\ unit' = InstrNoteOn(unit, note_name, 100, "unit")
         /\ unitCall' = Called("note_on", note_name)
    /\ UNCHANGED << seqVars, lock, cbPc, cbFrames, cbSeen, ctlPc, ctlArgs, render,
                    blocksRun, blockLog, noteOnLog, histVars, cbOut, calcVars >>

\* Instrument.note_off(note_name)
UnitNoteOff ==
    /\ \E note_name \in UnitPitches :
         /\ unit' = InstrNoteOff(unit, note_name)
         /\ unitCall' = Called("note_off", note_name)
    /\ UNCHANGED << seqVars, lock, cbPc, cbFrames, cbSeen, ctlPc, ctlArgs, render,
                    blocksRun, blockLog, noteOnLog, histVars, cbOut, calcVars >>

\* Instrument.process(num_samples); any voice's process() and any effect's
\* process() may raise.
UnitProcess ==
    /\ \E num_samples \in UnitBlockSizes, fault \in UnitFaults :
         LET r == InstrProcessRaising(unit, num_samples, fault.voices, fault.effects)
         IN /\ unit' = r.inst
            /\ unitCall' = [Called("process", "") EXCEPT
                               !.raisingVoices = fault.voices,
                               !.raisingEffects = fault.effects,
                               !.mixed = r.mixed,
                               !.silenced = r.silenced,
                               !.attempted = r.attempted,
                               !.applied = r.applied,
                               !.raised = r.raised]
    /\ UNCHANGED << seqVars, lock, cbPc, cbFrames, cbSeen, ctlPc, ctlArgs, render,
                    blocksRun, blockLog, noteOnLog, histVars, cbOut, calcVars >>

UnitNext ==
    \/ UnitNoteOn
    \/ UnitNoteOff
    \/ UnitProcess

UnitSpec == Init /\ [][UnitNext]_vars

\* ------------------------------------------------------------------ claims
\* The note event the pattern grid holds for a track at an absolute step.
SlotAt(comp, t, step) ==
    LET track == comp.tracks[t]
        loop == TotalLoopSteps(comp)
    IN IF track.patterns = <<>> \/ track.sequence = <<>> THEN None
       ELSE LET pattern_index == track.sequence[((step \div loop) % Len(track.sequence)) + 1]
            IN IF pattern_index < 0 \/ pattern_index >= Len(track.patterns) THEN None
               ELSE LET pattern == track.patterns[pattern_index + 1]
                    IN IF pattern = <<>> THEN None
                       ELSE pattern[((step % loop) % Len(pattern)) + 1]

\* True when the track's slot at that step holds a note for a known instrument.
HoldsNote(t, step) ==
    /\ SlotAt(composition, t, step).note # ""
    /\ composition.tracks[t].instrument_id \in DOMAIN instruments

NoteOnCount(t, step) ==
    Cardinality({ i \in DOMAIN noteOnLog :
                    noteOnLog[i].track = t /\ noteOnLog[i].step = step })

\* C1: over the callbacks since the cursor was reset, note_on has been called
\* at most once for every (track, step), each call in the callback whose
\* [start, end) holds the step's boundary frame, and between callbacks exactly
\* once for every note-holding (track, step) whose boundary the cursor passed.
C1_NoteOnOncePerStep ==
    LET sdf == StepDurationFrames(composition)
    IN /\ \A i \in DOMAIN noteOnLog :
            /\ NoteOnCount(noteOnLog[i].track, noteOnLog[i].step) = 1
            /\ noteOnLog[i].start <= noteOnLog[i].step * sdf
            /\ noteOnLog[i].step * sdf < noteOnLog[i].end
       /\ (cbPc = "idle" /\ ctlPc = "idle" /\ sdf > 0) =>
            \A t \in DOMAIN composition.tracks :
                \A step \in 0..(current_frame \div sdf) :
                    (HoldsNote(t, step) /\ step * sdf < current_frame)
                        => NoteOnCount(t, step) = 1

\* A note-off entry that will still be fired on the object `id` names.
PendingNoteOff(id, note_name) ==
    \E i \in DOMAIN note_off_events :
        /\ note_off_events[i].instrument = id
        /\ note_off_events[i].obj = instruments[id].obj
        /\ note_off_events[i].note = note_name
        /\ note_off_events[i].frame >= current_frame

\* C2: no stuck notes: every voice the sequencer started and that has not yet
\* had its note_off (its envelope is not in release or off) still has a
\* note-off for its instrument and pitch queued at a frame the cursor has not
\* passed, so that a coming callback fires it.
C2_NoStuckNotes ==
    \A id \in DOMAIN instruments :
        \A i \in DOMAIN instruments[id].active_notes :
            LET v == instruments[id].active_notes[i]
            IN (v.by = "seq" /\ v.state \in {"attack", "decay", "sustain"})
                   => PendingNoteOff(id, v.note_name)

\* The step in which update_composition leaves its locked region and returns.
UpdateReturns == ctlPc = "update_cs" /\ ctlPc' = "idle"

\* C3: when update_composition(new_comp, new_instr) returns, the sequencer
\* holds new_comp and the objects of new_instr, the cursor is 0, the note-off
\* queue is empty and every instrument's active set is empty, whatever the
\* state before the call.
C3_UpdatePostcondition ==
    [][UpdateReturns =>
          /\ composition' = ArgComposition
          /\ ObjectsOf(instruments)' = ObjectsOf(ArgInstruments)
          /\ current_frame' = 0
          /\ note_off_events' = <<>>
          /\ ~HasVoices(instruments)']_vars

\* An update during playback has just returned; it was called with sounding
\* voices, queued note-offs and an advanced cursor, and left none of them.
C3_Witness ==
    /\ lastCtl.op = "update"
    /\ lastCtl.hadVoices /\ lastCtl.hadQueue /\ lastCtl.hadFrame
    /\ is_playing /\ cbPc = "idle" /\ ctlPc = "idle" /\ blocksRun = 0
    /\ current_frame = 0 /\ note_off_events = <<>> /\ ~HasVoices(instruments)

\* C4: the callback's and update_composition's locked regions never overlap,
\* and from its entry to its end a callback sees the composition and the
\* instrument objects it saw when it took the lock.
C4_CallbackSeesOneState ==
    /\ ~(cbPc # "idle" /\ ctlPc = "update_cs")
    /\ cbPc # "idle" =>
          /\ composition = cbSeen.composition
          /\ ObjectsOf(instruments) = cbSeen.objects

\* C5: while the sequencer is playing, the composition and the instrument map
\* it holds change only in update_composition's locked region.
C5_NoInPlaceEdit ==
    [][(is_playing /\ ctlPc # "update_cs") =>
          /\ composition' = composition
          /\ ObjectsOf(instruments)' = ObjectsOf(instruments)]_vars

\* C6: a step of the offline render, taken while the sequencer is playing,
\* leaves the active sets of the sequencer's instruments as they are.
C6_RenderLeavesVoices ==
    [][(is_playing /\ ctlPc = "render" /\ render' # render) =>
          instruments' = instruments]_vars

\* C7: when stop() returns from the playing state, every instrument the
\* sequencer holds has an empty active set.
C7_StopClearsVoices ==
    [][(is_playing /\ ~is_playing') => ~HasVoices(instruments)']_vars

\* C8: a note-off that was queued when stop() was called is never fired
\* afterwards, whatever play() and callbacks follow.
C8_StoppedNoteOffsNeverFire == staleFired = FALSE

\* stop() found note-offs queued; after a later play() the cursor has passed
\* the frame of one of them and none of them was fired.
C8_Witness ==
    /\ is_playing /\ lastCtl.op = "play"
    /\ \E f \in stoppedFrames : f < current_frame
    /\ staleFired = FALSE

\* A voice a callback created in a run that stop() has ended.
HoldsOldVoice ==
    \E id \in DOMAIN instruments :
        \E i \in DOMAIN instruments[id].active_notes :
            instruments[id].active_notes[i].by = "old"

\* C9: when play() succeeds, the cursor is 0, the note-off queue is empty and
\* no instrument holds a voice of an earlier run.
C9_PlayRestartsClean ==
    [][(~is_playing /\ is_playing') =>
          /\ current_frame' = 0
          /\ note_off_events' = <<>>
          /\ ~HoldsOldVoice']_vars

\* C10: update_composition leaves is_playing and the stream as they were.
C10_UpdateKeepsPlayState ==
    [][UpdateReturns => (is_playing' = is_playing /\ stream' = stream)]_vars

\* An update to a composition without tracks has just returned during
\* playback, and playback goes on.
C10_Witness ==
    /\ lastCtl.op = "update"
    /\ composition.tracks = <<>>
    /\ is_playing /\ stream = "active"
    /\ ctlPc = "idle" /\ blocksRun = 0


\* A step in which a control operation of the given names returned.
CtlStep(ops) == lastCtl' # lastCtl /\ lastCtl'.op \in ops

PlayStep == CtlStep({"play", "play_refused", "play_raised"})

PlayRefusedIsNoOp ==
    PlayStep /\ (is_playing \/ composition.tracks = << >>)
        => /\ lastCtl'.op = "play_refused"
           /\ UNCHANGED << is_playing, stream, current_frame, note_off_events >>

C12_PlayReportsNoTracks ==
    lastCtl.op = "play_refused" /\ ~is_playing /\ composition.tracks = << >>
        => lastCtl.value # ReturnValue

StopStep == CtlStep({"stop", "stop_refused"})

\* C13: stop() on a stopped sequencer changes nothing, so a second stop()
\* adds nothing to the first; only stop() takes the sequencer from playing to
\* stopped, and it always does.
C13_StopIdempotent ==
    [][/\ StopStep /\ ~is_playing
            => lastCtl'.op = "stop_refused" /\ UNCHANGED << seqVars, lock >>
       /\ StopStep /\ is_playing => lastCtl'.op = "stop" /\ ~is_playing'
       /\ is_playing /\ ~is_playing' => StopStep]_vars

\* stop() was called again right after a stop() that ended a playback.
C13_Witness ==
    /\ lastCtl.op = "stop_refused"
    /\ ~is_playing
    /\ stream = "none"
    /\ stoppedFrames # {}
    /\ composition.tracks # << >>


\* One whole callback (lines 60-152) on a sequencer that nothing else
\* touches: the due note-offs, the note-ons of the block's steps, the mix.
CallbackRun(st, comp, frames) ==
    LET start_frame == st.frame
        end_frame == start_frame + frames
        sdf == StepDurationFrames(comp)
        cb == [composition |-> comp, objects |-> ObjectsOf(st.instruments),
               step_duration_frames |-> sdf,
               total_loop_steps |-> TotalLoopSteps(comp)]
        n == ProcessedEvents(st.queue, end_frame)
        fired == [instruments |-> FireNoteOffs(st.instruments, st.queue, n, start_frame),
                  queue |-> SubSeq(st.queue, n + 1, Len(st.queue)),
                  counter |-> st.counter, log |-> st.log, raised |-> FALSE]
        on == IF sdf > 0
              THEN TriggerSteps(fired, comp, start_frame \div sdf, end_frame \div sdf,
                                cb, start_frame, end_frame)
              ELSE [fired EXCEPT !.instruments = st.instruments, !.queue = st.queue]
    IN [instruments |-> ProcessAll(on.instruments, frames),
        queue |-> on.queue, counter |-> on.counter, log |-> on.log,
        frame |-> end_frame]

\* Sequencer(comp, instruments) as __init__ and play() leave it: cursor 0, an
\* empty queue, counter 0; the instruments are handed over without voices.
FreshSequencer(objects) ==
    [instruments |-> [id \in DOMAIN objects |-> NewInstrument(objects[id])],
     queue |-> <<>>, counter |-> 0, log |-> <<>>, frame |-> 0]

\* The fresh sequencer after callbacks with the given blocks.
RECURSIVE FreshRun(_, _, _)
FreshRun(comp, objects, blocks) ==
    IF blocks = <<>> THEN FreshSequencer(objects)
    ELSE CallbackRun(FreshRun(comp, objects, SubSeq(blocks, 1, Len(blocks) - 1)),
                     comp, blocks[Len(blocks)].frames)

\* ------------------------------------ callbacks over notes of one pitch
\* One track on one instrument, six steps at 120 bpm (5512 frames a step):
\* C4 at step 0 and again at step 2.  The first note lasts three steps in
\* one pattern (it is still held when the second starts) and one step in
\* the other (it has ended by then).
OverlapTracks ==
    { [instrument_id |-> "lead",
       patterns |-> << << NoteEvent("C4", 100, d), None, NoteEvent("C4", 100, 2),
                          None, None, None >> >>,
       sequence |-> << 0 >>] : d \in {1, 3} }

OverlapCompositions == { [bpm |-> 120, tracks |-> << a >>] : a \in OverlapTracks }

\* Block sizes: half a step, a whole step, more than a step.
OverlapBlockSizes == {2756, 5512, 6000}

\* The number of callbacks.
MaxOverlapBlocks == 6

OverlapInit ==
    /\ ModelInit
    /\ calcIn \in [fn : {"overlap"}, composition : OverlapCompositions]
    /\ calcOut = [fn |-> "overlap", blocks |-> 0,
                  st |-> FreshSequencer(ObjectsOf(ScheduleInstruments))]

\* One more callback of the driver, with a block size of its choice.
OverlapCallback ==
    /\ calcIn.fn = "overlap" /\ calcOut.blocks < MaxOverlapBlocks
    /\ \E frames \in OverlapBlockSizes :
          calcOut' = [fn |-> "overlap", blocks |-> calcOut.blocks + 1,
                      st |-> CallbackRun(calcOut.st, calcIn.composition, frames)]
    /\ UNCHANGED << modelVars, calcIn >>

OverlapNext == OverlapCallback

OverlapSpec == OverlapInit /\ [][OverlapNext]_vars

\* Only callbacks have touched the instruments since the last
\* update_composition, which is the control operation that returned last.
OnlyCallbacksSinceUpdate ==
    /\ is_playing /\ lastCtl.op = "update"
    /\ ctlPc = "idle" /\ cbPc = "idle"
    /\ \A i \in DOMAIN blockLog : blockLog[i].by = "callback"

\* C14: after update_composition(c, i) during playback the callbacks make
\* the note_on, note_off and process calls of a fresh Sequencer(c, i) that
\* starts at frame 0 and is given the same block sizes: they leave the same
\* voices, queue, counter and cursor, and have made the same note_on calls.
C14_HotSwapEqualsFreshStart ==
    OnlyCallbacksSinceUpdate =>
        LET fresh == FreshRun(composition, ObjectsOf(instruments), blockLog)
        IN /\ instruments = fresh.instruments
           /\ note_off_events = fresh.queue
           /\ event_counter = fresh.counter
           /\ current_frame = fresh.frame
           /\ noteOnLog = fresh.log

\* An update during a playback that had sounding voices, queued note-offs and
\* an advanced cursor, followed by two callbacks that triggered notes.
C14_Witness ==
    /\ OnlyCallbacksSinceUpdate
    /\ lastCtl.hadVoices /\ lastCtl.hadQueue /\ lastCtl.hadFrame
    /\ Len(blockLog) = 2
    /\ noteOnLog # <<>>
    /\ note_off_events # <<>>
    /\ HasVoices(instruments)


\* The note_on calls ("instrument", note) of the live sequencer in its k-th
\* block, from a fresh start with blocks of buffer_size frames.
LiveNoteOns(comp, instrs, k) ==
    LET blocks == [i \in 1..MaxRenderChunks |-> [by |-> "callback", frames |-> buffer_size]]
        log == FreshRun(comp, ObjectsOf(instrs), blocks).log
    IN [call \in (DOMAIN instrs) \X { SlotAt(comp, log[i].track, log[i].step).note : i \in DOMAIN log } |->
          Cardinality({ i \in DOMAIN log :
              /\ log[i].start = k * buffer_size
              /\ comp.tracks[log[i].track].instrument_id = call[1]
              /\ SlotAt(comp, log[i].track, log[i].step).note = call[2] })]

\* The note_on calls of the offline render in its k-th chunk.
RenderNoteOns(comp, instrs, k) ==
    LET ons == RenderEvents(NoEvents, comp, instrs, 1, StepDurationFrames(comp)).ons
    IN [call \in (DOMAIN instrs) \X { ons[i].note : i \in DOMAIN ons } |->
          Cardinality({ i \in DOMAIN ons :
              /\ ons[i].frame \div buffer_size = k
              /\ ons[i].instrument = call[1]
              /\ ons[i].note = call[2] })]

\* The calls that a table makes at all.
Made(calls) == { call \in DOMAIN calls : calls[call] > 0 }

\* C15: for a composition the render accepts, the render and the live
\* sequencer, both fed buffer_size frames at a time, make the same calls
\* into the instruments; here, the same note_on calls in each of the first
\* MaxRenderChunks chunks.
C15_RenderMatchesLive ==
    LET ev == RenderEvents(NoEvents, composition, instruments, 1,
                           StepDurationFrames(composition))
    IN composition.tracks # <<>> /\ ~RenderRefuses(composition) /\ ~ev.error =>
         \A k \in 0..(MaxRenderChunks - 1) :
            LET live == LiveNoteOns(composition, instruments, k)
                offline == RenderNoteOns(composition, instruments, k)
            IN /\ Made(live) = Made(offline)
               /\ \A call \in Made(live) : live[call] = offline[call]


\* The voices of the instrument that hold the given pitch.
VoicesFor(notes, p) == { i \in DOMAIN notes : notes[i].note_name = p }

\* C16: an instrument holds at most one voice per pitch; after note_on(p)
\* there is exactly one voice for p, in attack at level 0; a process() call
\* mixes each pitch at most once, and the voices never outnumber the pitches
\* that were triggered.
C16_OneVoicePerPitch ==
    /\ \A p \in UnitPitches : Cardinality(VoicesFor(unit.active_notes, p)) <= 1
    /\ Len(unit.active_notes) <= Cardinality(UnitPitches)
    /\ unitCall.op = "note_on" =>
         /\ Cardinality(VoicesFor(unit.active_notes, unitCall.note)) = 1
         /\ \A i \in VoicesFor(unit.active_notes, unitCall.note) :
              unit.active_notes[i].state = "attack" /\ unit.active_notes[i].level = 0
    /\ unitCall.op = "process" =>
         \A i, j \in DOMAIN unitCall.mixed :
            unitCall.mixed[i] = unitCall.mixed[j] => i = j

\* note_on(p) while a voice for p was sounding above level 0 and another
\* pitch was held.
C16_Witness ==
    /\ unitCall.op = "note_on"
    /\ \E i \in VoicesFor(unitCall.before, unitCall.note) :
         is_active(unitCall.before[i]) /\ unitCall.before[i].level > 0
    /\ Len(unitCall.before) = 2
    /\ Len(unit.active_notes) = 2

\* C17: note_off(p) when no voice for p is active (envelope state other than
\* off) leaves the voices, their envelope states and their levels as they were.
C17_NoteOffWithoutActiveVoice ==
    /\ unitCall.op = "note_off"
    /\ \A i \in VoicesFor(unitCall.before, unitCall.note) : ~is_active(unitCall.before[i])
    => unit.active_notes = unitCall.before

\* C18: when a voice's process() raises, nothing leaves Instrument.process,
\* the raising voice adds nothing to the block, the other active voices are
\* mixed, and the raising voice stays in the instrument, still active, for
\* the next block.
C18_RaisingVoiceSilencedForOneBlock ==
    unitCall.op = "process" =>
        /\ ~unitCall.raised
        /\ \A i \in DOMAIN unitCall.before :
             LET v == unitCall.before[i]
             IN is_active(v) =>
                  IF v.note_name \in unitCall.raisingVoices
                  THEN /\ \A k \in DOMAIN unitCall.mixed : unitCall.mixed[k] # v.note_name
                       /\ \E j \in VoicesFor(unit.active_notes, v.note_name) :
                            is_active(unit.active_notes[j])
                  ELSE \E k \in DOMAIN unitCall.mixed : unitCall.mixed[k] = v.note_name

\* The effects of a chain that did not raise, in chain order.
RECURSIVE Surviving(_, _)
Surviving(effects, raising) ==
    IF effects = <<>> THEN <<>>
    ELSE (IF Head(effects) \in raising THEN <<>> ELSE <<Head(effects)>>)
             \o Surviving(Tail(effects), raising)

\* C19: when effects of the chain raise, nothing leaves Instrument.process,
\* the buffer goes through exactly the other effects in chain order, and the
\* chain is left whole, so that every effect is called again in each later
\* block.
C19_RaisingEffectSkipped ==
    /\ unit.effects = UnitEffects
    /\ unitCall.op = "process" =>
         /\ ~unitCall.raised
         /\ unitCall.attempted = UnitEffects
         /\ unitCall.applied = Surviving(UnitEffects, unitCall.raisingEffects)

\* The middle effect raised in a block that mixed a voice, right after a
\* block in which an effect had raised: the whole chain was called again and
\* the outer two effects were applied in order.
C19_Witness ==
    /\ unitCall.op = "process"
    /\ unitCall.afterEffectFault
    /\ unitCall.raisingEffects = {"fx2"}
    /\ unitCall.attempted = UnitEffects
    /\ unitCall.applied = << "fx1", "fx3" >>
    /\ unitCall.mixed # <<>>


\* The step in which a callback ends.
CallbackEnds == cbPc = "mix" /\ cbPc' = "idle"

\* C20: when instruments raise in process() inside the callback, the callback
\* still ends normally: every other instrument is processed and is in the
\* mix, the output buffer is written, the cursor advances by exactly frames,
\* the lock is released and the stream keeps playing.
C20_CallbackSurvivesInstrumentFault ==
    [][CallbackEnds =>
         /\ cbOut'.written
         /\ cbOut'.mixed \cup cbOut'.raised = DOMAIN instruments
         /\ \A id \in DOMAIN instruments \ cbOut'.raised :
              /\ id \in cbOut'.mixed
              /\ instruments'[id] = InstrProcess(instruments[id], cbFrames)
         /\ current_frame' = current_frame + cbFrames
         /\ lock' = "free"
         /\ stream' = stream /\ is_playing' = is_playing]_vars

\* A callback in which one instrument raised and another, holding a voice,
\* was mixed; the stream is still playing.
C20_Witness ==
    /\ cbPc = "idle" /\ lock = "free"
    /\ is_playing /\ stream = "active"
    /\ cbOut.written /\ cbOut.raised # {}
    /\ current_frame = cbOut.frames
    /\ \E id \in cbOut.mixed : id \in DOMAIN instruments /\ instruments[id].active_notes # <<>>


\* The tracks of a composition whose instrument is in the map, in order.
RECURSIVE KnownTracks(_, _)
KnownTracks(tracks, instrs) ==
    IF tracks = <<>> THEN <<>>
    ELSE (IF Head(tracks).instrument_id \in DOMAIN instrs THEN << Head(tracks) >> ELSE <<>>)
             \o KnownTracks(Tail(tracks), instrs)

WithoutUnknown(comp, instrs) == [comp EXCEPT !.tracks = KnownTracks(comp.tracks, instrs)]

\* What a scheduling result did to the instruments and the queue.
Scheduled(st) == << st.instruments, st.queue, st.counter >>

UnknownTracksSkipped ==
    LET comp == calcIn.composition
        st == calcOut.st
    IN /\ \A i \in DOMAIN st.log :
            comp.tracks[st.log[i].track].instrument_id \in DOMAIN ScheduleInstruments
       /\ \A i \in DOMAIN st.queue : st.queue[i].instrument \in DOMAIN ScheduleInstruments
       /\ Len(st.queue) = Len(st.log) /\ st.counter = Len(st.log)

\* C21 as stated: a track whose instrument_id is not in the map gets no
\* note_on and no note-off, the step is completed, and the other tracks are
\* scheduled exactly as if that track were not in the composition.
C21_UnknownInstrumentAsIfAbsent ==
    calcOut.fn = "schedule" =>
        /\ UnknownTracksSkipped
        /\ Scheduled(calcOut.st) =
             Scheduled(ScheduleOneStep(WithoutUnknown(calcIn.composition, ScheduleInstruments),
                                       ScheduleInstruments, calcIn.step))

\* C21 amended: such a track gets no note_on and no note-off and the step is
\* completed; the other tracks are scheduled as if it were absent except
\* that its patterns still count in the loop length.
C21_UnknownInstrumentSkipped ==
    calcOut.fn = "schedule" =>
        /\ UnknownTracksSkipped
        /\ LET comp == calcIn.composition
               without == WithoutUnknown(comp, ScheduleInstruments)
               cb == CallbackSees(comp, ScheduleInstruments)
               start_frame == calcIn.step * cb.step_duration_frames
           IN Scheduled(calcOut.st) =
                Scheduled(TriggerTracks([instruments |-> ScheduleInstruments, queue |-> <<>>,
                                         counter |-> 0, log |-> <<>>, raised |-> FALSE],
                                        without, calcIn.step, 1, cb,
                                        start_frame, start_frame + 1))

\* The slot of a track at an absolute step as the rule of C29 gives it.
ExpectedSlot(comp, t, s) ==
    LET lengths == UNION { { Len(comp.tracks[u].patterns[p]) :
                                 p \in DOMAIN comp.tracks[u].patterns } :
                             u \in DOMAIN comp.tracks }
        loop_length == CHOOSE m \in lengths : \A l \in lengths : l <= m
        track == comp.tracks[t]
        index == track.sequence[((s \div loop_length) % Len(track.sequence)) + 1]
    IN IF index >= Len(track.patterns) THEN None
       ELSE track.patterns[index + 1][((s % loop_length) % Len(track.patterns[index + 1])) + 1]

\* A step at which a track of an unknown instrument holds a note and another
\* track was triggered.
C21_Witness ==
    /\ calcOut.fn = "schedule"
    /\ \E t \in DOMAIN calcIn.composition.tracks :
         /\ calcIn.composition.tracks[t].instrument_id \notin DOMAIN ScheduleInstruments
         /\ ExpectedSlot(calcIn.composition, t, calcIn.step).note # ""
    /\ calcOut.st.log # <<>>


\* C29: at every absolute step the callback triggers, for each track whose
\* instrument is known, exactly the note that the rule gives: loop length =
\* the longest pattern of any track, pattern = sequence[(s \div loop) mod
\* len(sequence)], index = (s mod loop) mod pattern length; a rest, or a
\* sequence entry that points past the patterns, triggers nothing.
C29_SlotResolution ==
    calcOut.fn = "schedule" =>
        LET comp == calcIn.composition
            st == calcOut.st
            due == { t \in DOMAIN comp.tracks :
                       /\ comp.tracks[t].instrument_id \in DOMAIN ScheduleInstruments
                       /\ ExpectedSlot(comp, t, calcIn.step).note # "" }
        IN /\ { st.log[i].track : i \in DOMAIN st.log } = due
           /\ Len(st.log) = Cardinality(due)
           /\ \A i \in DOMAIN st.log :
                LET slot == ExpectedSlot(comp, st.log[i].track, calcIn.step)
                IN \E k \in DOMAIN st.queue :
                     /\ st.queue[k].event_id = i - 1
                     /\ st.queue[k].note = slot.note
                     /\ st.queue[k].instrument = comp.tracks[st.log[i].track].instrument_id
                     /\ \E v \in DOMAIN st.instruments[st.queue[k].instrument].active_notes :
                          st.instruments[st.queue[k].instrument].active_notes[v].note_name = slot.note

\* A three-step pattern beside a four-step one, past the first loop: the
\* short pattern starts again with the loop and its first note is triggered.
C29_Witness ==
    /\ calcOut.fn = "schedule"
    /\ calcIn.step = 4
    /\ Len(calcIn.composition.tracks) = 2
    /\ Len(calcIn.composition.tracks[1].patterns[1]) = 4
    /\ Len(calcIn.composition.tracks[2].patterns[1]) = 3
    /\ \E i \in DOMAIN calcOut.st.log : calcOut.st.log[i].track = 2


\* The step in which a callback has gone through its note-ons.
NoteOnsDone == cbPc = "ons" /\ cbPc' = "mix"

\* The queue entries with the given event id.
EntriesWithId(queue, id) == { k \in DOMAIN queue : queue[k].event_id = id }

\* C27: each note_on of a callback puts exactly one note-off into the queue,
\* for the same instrument and pitch, at frame step * step_duration_frames +
\* duration * step_duration_frames; the callback puts nothing else into the
\* queue and takes nothing out of it while it triggers.
C27_NoteOnQueuesItsNoteOff ==
    [][NoteOnsDone =>
         LET made == Len(noteOnLog') - Len(noteOnLog)
             sdf == cbSeen.step_duration_frames
         IN /\ made >= 0
            /\ event_counter' = event_counter + made
            /\ Len(note_off_events') = Len(note_off_events) + made
            /\ \A j \in 1..made :
                 LET call == noteOnLog'[Len(noteOnLog) + j]
                     slot == SlotAt(composition, call.track, call.step)
                     mine == EntriesWithId(note_off_events', event_counter + j - 1)
                 IN /\ Cardinality(mine) = 1 + Cardinality(EntriesWithId(note_off_events,
                                                                      event_counter + j - 1))
                    /\ \E k \in mine :
                         /\ note_off_events'[k].frame = call.step * sdf + slot.duration * sdf
                         /\ note_off_events'[k].instrument =
                                composition.tracks[call.track].instrument_id
                         /\ note_off_events'[k].note = slot.note
            /\ \A k \in DOMAIN note_off_events :
                 \E m \in DOMAIN note_off_events' : note_off_events'[m] = note_off_events[k]]_vars

\* A callback has just triggered a note of two steps and its note-off is in
\* the queue, two steps after the note's step.
C27_Witness ==
    /\ cbPc = "mix"
    /\ \E i \in DOMAIN noteOnLog :
         /\ noteOnLog[i].start = current_frame
         /\ SlotAt(composition, noteOnLog[i].track, noteOnLog[i].step).duration = 2
         /\ \E k \in DOMAIN note_off_events :
              note_off_events[k].frame =
                  (noteOnLog[i].step + 2) * cbSeen.step_duration_frames


\* The step in which a callback takes the lock and fires the due note-offs.
NoteOffsDone == cbPc = "idle" /\ cbPc' = "ons"

\* C28: a callback with window [start, end) takes out of the queue exactly
\* the note-offs whose frame is in the window, and every other queued
\* note-off stays where it was.
C28_OnlyDueNoteOffsLeave ==
    [][NoteOffsDone =>
         LET start_frame == current_frame
             end_frame == current_frame + cbFrames'
             Stays(ev) == ~(start_frame <= ev.frame /\ ev.frame < end_frame)
         IN note_off_events' = SelectSeq(note_off_events, Stays)]_vars


\* C30: when Instrument.process has returned, no voice of the instrument has
\* an envelope that is off; note_on leaves the voices of the other pitches
\* alone, and note_off removes no voice at all.
C30_ProcessDropsInactiveVoices ==
    /\ unitCall.op = "process" =>
         \A i \in DOMAIN unit.active_notes : is_active(unit.active_notes[i])
    /\ unitCall.op = "note_on" =>
         \A p \in UnitPitches \ {unitCall.note} :
            Cardinality(VoicesFor(unit.active_notes, p)) =
                Cardinality(VoicesFor(unitCall.before, p))
    /\ unitCall.op = "note_off" => Len(unit.active_notes) = Len(unitCall.before)

\* C22: Composition.to_dict followed by Composition.from_dict gives back the
\* composition: the same bpm, and for every track the same instrument_id,
\* the same number of patterns, the same sequence, the same pattern lengths
\* and the same note, velocity and duration at every step.
C22_CompositionRoundTrip ==
    calcOut.fn = "record" =>
        LET comp == calcIn.composition
            back == calcOut.back
        IN /\ back.bpm = comp.bpm
           /\ Len(back.tracks) = Len(comp.tracks)
           /\ \A t \in 1..Len(comp.tracks) :
                /\ back.tracks[t].instrument_id = comp.tracks[t].instrument_id
                /\ Len(back.tracks[t].patterns) = Len(comp.tracks[t].patterns)
                /\ back.tracks[t].sequence = comp.tracks[t].sequence
                /\ \A p \in 1..Len(comp.tracks[t].patterns) :
                     /\ Len(back.tracks[t].patterns[p]) = Len(comp.tracks[t].patterns[p])
                     /\ back.tracks[t].patterns[p] = comp.tracks[t].patterns[p]

\* The parameters of an effect: every key of its params but the copy of the
\* enabled flag that __init__ keeps there when it was given one.
ParamsOf(effect) == [k \in DOMAIN effect.params \ {"enabled"} |-> effect.params[k]]

\* C23: Instrument.to_dict followed by Instrument.from_dict gives back the
\* same name, oscillators, attack, decay, sustain_level, release and filter
\* settings, and the same effects in the same order, each with the same type,
\* enabled flag and value of every parameter, those left at their defaults
\* included.
C23_InstrumentRoundTrip ==
    calcOut.fn = "instrument" =>
        LET inst == calcIn.instrument
            back == calcOut.back
        IN /\ back.name = inst.name
           /\ back.oscillators = inst.oscillators
           /\ back.attack = inst.attack /\ back.decay = inst.decay
           /\ back.sustain_level = inst.sustain_level /\ back.release = inst.release
           /\ back.filter_type = inst.filter_type
           /\ back.filter_cutoff_hz = inst.filter_cutoff_hz
           /\ back.filter_resonance_q = inst.filter_resonance_q
           /\ Len(back.effects) = Len(inst.effects)
           /\ \A i \in 1..Len(inst.effects) :
                /\ back.effects[i].effect_type = inst.effects[i].effect_type
                /\ back.effects[i].enabled = inst.effects[i].enabled
                /\ DOMAIN ReverbDefaults \subseteq DOMAIN ParamsOf(back.effects[i])
                /\ ParamsOf(back.effects[i]) = ParamsOf(inst.effects[i])

\* Reached: a round trip of an instrument with a disabled effect and an
\* effect whose record leaves out room_size, which is at its default.
C23_Witness ==
    /\ calcOut.fn = "instrument"
    /\ Len(calcIn.instrument.effects) = 2
    /\ ~calcIn.instrument.effects[1].enabled
    /\ "room_size" \notin DOMAIN calcOut.data["effects"][2]
    /\ "dry_level" \in DOMAIN calcOut.data["effects"][2]
    /\ calcOut.back.effects[2].params["room_size"] = ReverbDefaults["room_size"]

\* C24: from every stored (level, state) and for all N, M >= 1, process(N)
\* followed by process(M) returns the same N+M values and leaves the same
\* (level, state) as one process(N+M), and both equal N+M single steps of
\* the generator.
C24_BlockEqualsSampleBySample ==
    calcOut.fn = "envelope" =>
        /\ calcOut.split.values = calcOut.whole.values
        /\ calcOut.split.v.level = calcOut.whole.v.level
        /\ calcOut.split.v.state = calcOut.whole.v.state
        /\ calcOut.whole.values = calcOut.single.values
        /\ calcOut.whole.v.level = calcOut.single.v.level
        /\ calcOut.whole.v.state = calcOut.single.v.state

\* The samples of a split add up to ReleaseSamples.
RECURSIVE SumOf(_)
SumOf(blocks) == IF blocks = <<>> THEN 0 ELSE Head(blocks) + SumOf(Tail(blocks))

\* C25: after a note_off at level L the release ramp starts at L, and once
\* release_time * sample_rate samples have been processed the level is 0 and
\* the state is off, however the samples were split into blocks.
C25_ReleaseReachesZeroInReleaseTime ==
    (calcOut.fn = "release" /\ SumOf(calcIn.blocks) = ReleaseSamples) =>
        /\ calcOut.first = calcIn.level
        /\ calcOut.v.level = 0
        /\ calcOut.v.state = "off"

\* C26: a reverb with wet_level 0 and dry_level 1 returns, for a block whose
\* samples are all within +/-0.95 and after any earlier blocks, the block it
\* was given, sample for sample.
C26_DryReverbIsIdentity ==
    (/\ calcOut.fn = "reverb"
     /\ calcIn.params.wet_level = 0
     /\ calcIn.params.dry_level = Unit
     /\ \A i \in 1..Len(calcIn.block) : -9500 <= calcIn.block[i] /\ calcIn.block[i] <= 9500)
        => calcOut.output = calcIn.block

\* Reached: an enabled dry-only reverb whose delay lines hold the tail of
\* earlier blocks while it processes a block that is not silent.
C26_Witness ==
    /\ calcOut.fn = "reverb"
    /\ calcIn.params.enabled
    /\ calcIn.params.wet_level = 0 /\ calcIn.params.dry_level = Unit
    /\ calcIn.history # <<>>
    /\ \E i \in 1..Len(calcIn.block) : calcIn.block[i] # 0
    /\ \E i \in 1..Len(calcOut.reverb) : calcOut.reverb[i] # 0
    /\ calcOut.output = calcIn.block

\* C34: an enabled reverb, whatever the samples, the parameters and the
\* earlier blocks, returns only samples within +/-0.95, and every feedback
\* value it adds into a delay line is within +/-0.8.
C34_ReverbIsBounded ==
    (calcOut.fn = "reverb" /\ calcIn.params.enabled) =>
        /\ \A i \in 1..Len(calcOut.output) :
              -9500 <= calcOut.output[i] /\ calcOut.output[i] <= 9500
        /\ -8000 <= calcOut.feedback.lo /\ calcOut.feedback.hi <= 8000

\* Reached: a block in which both limiters act, an output sample held at
\* 0.95 and a feedback value held at 0.8.
C34_Witness ==
    /\ calcOut.fn = "reverb" /\ calcIn.params.enabled
    /\ calcIn.history # <<>>
    /\ calcOut.feedback.hi = 8000
    /\ \E i \in 1..Len(calcOut.output) : calcOut.output[i] = 9500
    /\ \E i \in 1..Len(calcOut.output) :
          calcOut.output[i] # 9500 /\ calcOut.output[i] # calcIn.block[i]

\* C35: every delay line keeps its positive length over a process call and
\* its pointer stays within [0, length); an enabled effect advances every
\* pointer by one modulo the length per input sample (a disabled one passes
\* the block through and moves nothing); lengths and pointers change
\* otherwise only when set_param reinitializes the effect, and setting
\* 'enabled' leaves them alone.
C35_DelayLinesKeepLengthAndCursor ==
    /\ calcOut.fn \in {"reverb", "set_param"} =>
          \A j \in Lines :
              /\ calcOut.after.lengths[j] > 0
              /\ 0 <= calcOut.after.indices[j]
              /\ calcOut.after.indices[j] < calcOut.after.lengths[j]
    /\ calcOut.fn = "reverb" =>
          /\ calcOut.after.lengths = calcOut.before.lengths
          /\ \A j \in Lines :
                calcOut.after.indices[j] =
                    IF calcIn.params.enabled
                    THEN (calcOut.before.indices[j] + Len(calcIn.block))
                            % calcOut.before.lengths[j]
                    ELSE calcOut.before.indices[j]
    /\ (calcOut.fn = "set_param" /\ calcOut.after # calcOut.before) =>
          /\ calcOut.param_name # "enabled"
          /\ \A j \in Lines : calcOut.after.indices[j] = 0

\* Reached: a block during which a pointer wraps round the end of its line
\* while another one does not.
C35_Witness ==
    /\ calcOut.fn = "reverb" /\ calcIn.params.enabled
    /\ \E j, k \in Lines :
          /\ calcOut.after.indices[j] < calcOut.before.indices[j]
          /\ calcOut.after.indices[k] > calcOut.before.indices[k]
          /\ calcOut.before.indices[k] > 0

\* The queue runs by frame, and by event id within a frame.
QueueOrdered(queue) ==
    \A i \in 1..(Len(queue) - 1) :
        \/ queue[i].frame < queue[i + 1].frame
        \/ /\ queue[i].frame = queue[i + 1].frame
           /\ queue[i].event_id < queue[i + 1].event_id

\* C36: the note-off queue is always sorted by frame.  An entry put in by a
\* callback carries an event id that no entry of the queue has reached (the
\* counter is only reset together with the queue), the ids of one callback
\* follow the order of its note_on calls, and the entry stands behind every
\* earlier entry of its frame: note-offs of one frame are in the order in
\* which they were queued.
C36_QueueSortedFifo ==
    /\ [](/\ QueueOrdered(note_off_events)
          /\ \A i \in DOMAIN note_off_events :
                note_off_events[i].event_id < event_counter)
    /\ [][NoteOnsDone =>
            \A k \in DOMAIN note_off_events' :
                note_off_events'[k].event_id >= event_counter =>
                    \A m \in DOMAIN note_off_events' :
                        (/\ note_off_events'[m].frame = note_off_events'[k].frame
                         /\ note_off_events'[m].event_id < note_off_events'[k].event_id)
                            => m < k]_vars

\* The note_on calls of the callback that is running.
MadeNow == Cardinality({ c \in DOMAIN noteOnLog : noteOnLog[c].start = current_frame })

\* Reached: after update_composition has reset the counter, two note-offs of
\* one frame wait in the queue, the second queued by a later callback than
\* the first.
C36_Witness ==
    /\ lastCtl.op = "update"
    /\ cbPc = "mix"
    /\ \E i, j \in DOMAIN note_off_events :
          /\ i < j
          /\ note_off_events[i].frame = note_off_events[j].frame
          /\ note_off_events[i].event_id < event_counter - MadeNow
          /\ note_off_events[j].event_id >= event_counter - MadeNow

\* The step in which a callback mixes, advances the cursor and returns.
MixDone == cbPc = "mix" /\ cbPc' = "idle"

\* The voices of the note_on calls the log has gained in this step.
NewVoices ==
    { v \in UNION { { instruments'[id].active_notes[i] :
                        i \in DOMAIN instruments'[id].active_notes } :
                    id \in DOMAIN instruments' } :
        \E c \in (Len(noteOnLog) + 1)..Len(noteOnLog') :
            v.note_name = SlotAt(composition, noteOnLog'[c].track, noteOnLog'[c].step).note }

\* C37: a callback goes through its stages in order.  Its first stage fires
\* and removes the due note-offs and makes no note_on; the second makes the
\* note_on calls, after which every voice they made is still in attack at
\* level 0 (no note-off and no process has reached it) and the queue has lost
\* nothing; the third processes the instruments, makes no note_on and moves
\* the cursor, by exactly `frames`.  Nothing else moves the cursor or calls
\* note_on while a callback runs.
C37_CallbackPhases ==
    [][/\ NoteOffsDone =>
            /\ noteOnLog' = noteOnLog /\ blockLog' = blockLog
            /\ current_frame' = current_frame
            /\ cbSeen'.step_duration_frames > 0 =>
                  \A k \in DOMAIN note_off_events' :
                      note_off_events'[k].frame >= current_frame + cbFrames'
       /\ NoteOnsDone =>
            /\ blockLog' = blockLog /\ current_frame' = current_frame
            /\ cbFrames' = cbFrames
            /\ Len(note_off_events') >= Len(note_off_events)
            /\ \A v \in NewVoices : v.state = "attack" /\ v.level = 0
       /\ MixDone =>
            /\ noteOnLog' = noteOnLog /\ note_off_events' = note_off_events
            /\ blockLog' = Append(blockLog, [by |-> "callback", frames |-> cbFrames])
            /\ current_frame' = current_frame + cbFrames
       /\ cbPc' # cbPc =>
            << cbPc, cbPc' >> \in { << "idle", "ons" >>, << "ons", "mix" >>, << "mix", "idle" >> }
       /\ (cbPc # "idle" /\ cbPc' = cbPc) =>
            /\ current_frame' = current_frame /\ cbFrames' = cbFrames
            /\ noteOnLog' = noteOnLog /\ note_off_events' = note_off_events]_vars

\* Reached: a callback has made its note_on calls after it fired the
\* note-off of a note of an earlier callback: that note-off was due in this
\* block and is out of the queue, and the voice of the pitch is a new one.
C37_Witness ==
    /\ cbPc = "mix" /\ MadeNow > 0
    /\ \E c \in DOMAIN noteOnLog :
          LET slot == SlotAt(composition, noteOnLog[c].track, noteOnLog[c].step)
              due == NoteOffFrame(noteOnLog[c].step, cbSeen.step_duration_frames,
                                  slot.duration)
              id == composition.tracks[noteOnLog[c].track].instrument_id
          IN /\ noteOnLog[c].start < current_frame
             /\ current_frame <= due /\ due < current_frame + cbFrames
             /\ \A k \in DOMAIN note_off_events :
                   note_off_events[k].frame = due =>
                       note_off_events[k].event_id >= event_counter - MadeNow
             /\ \E i \in DOMAIN instruments[id].active_notes :
                   /\ instruments[id].active_notes[i].note_name = slot.note
                   /\ instruments[id].active_notes[i].state = "attack"

\* C38: is_playing is true exactly when the sequencer holds a stream
\* (_stream is not None), also after a play() whose stream could not be
\* opened or started.
C38_PlayingIffStream == is_playing <=> (stream # "none")

\* The note-off frame of the note_on that made the voice an instrument has
\* for a pitch: the last note_on of that pitch on that instrument.
OwnNoteOff(st, comp, id, note_name) ==
    LET made == { c \in DOMAIN st.log :
                    /\ comp.tracks[st.log[c].track].instrument_id = id
                    /\ SlotAt(comp, st.log[c].track, st.log[c].step).note = note_name }
        last == CHOOSE c \in made : \A d \in made : d <= c
    IN NoteOffFrame(st.log[last].step, StepDurationFrames(comp),
                    SlotAt(comp, st.log[last].track, st.log[last].step).duration)

\* The voices that are in release or off before the callbacks have come to
\* their own note-off frame.
ReleasedEarly(st, comp) ==
    { << id, i >> \in { << id, i >> : id \in DOMAIN st.instruments, i \in 1..2 } :
        /\ i \in DOMAIN st.instruments[id].active_notes
        /\ st.instruments[id].active_notes[i].state \in {"release", "off"}
        /\ OwnNoteOff(st, comp, id, st.instruments[id].active_notes[i].note_name)
              >= st.frame }

\* C39: a voice is put into release only by the note-off of its own note_on:
\* when a callback has returned, a voice that is in release or off has had
\* its own note-off frame inside a block, also when an earlier note of the
\* same pitch on the same instrument was still held at its note_on.
C39_NoteOffReleasesOwnVoice ==
    calcOut.fn = "overlap" => ReleasedEarly(calcOut.st, calcIn.composition) = {}

\* The sequence entry a track is at, at an absolute step.
CurrentEntry(comp, t, step) ==
    LET track == comp.tracks[t]
    IN track.sequence[((step \div TotalLoopSteps(comp)) % Len(track.sequence)) + 1]

\* Tracks whose current entry is no valid index into their pattern list.
InvalidTracks(comp, step) ==
    { t \in DOMAIN comp.tracks :
         LET e == CurrentEntry(comp, t, step)
         IN e >= Len(comp.tracks[t].patterns) \/ e < 0 }

\* C31: a track whose current sequence entry is >= len(patterns) or negative
\* gets no note_on and no note-off for that step, the callback raises no
\* exception, and every other track that holds a note at the step is
\* scheduled.
C31_InvalidPatternIndexSkipped ==
    calcOut.fn = "index" =>
        LET comp == calcIn.composition
            st == calcOut.st
            invalid == InvalidTracks(comp, calcIn.step)
        IN /\ ~st.raised
           /\ \A i \in DOMAIN st.log : st.log[i].track \notin invalid
           /\ Len(st.queue) = Len(st.log)
           /\ \A t \in DOMAIN comp.tracks \ invalid :
                ExpectedSlot(comp, t, calcIn.step).note # "" =>
                    \E i \in DOMAIN st.log : st.log[i].track = t

\* The edges process() may take from envelope `b` to envelope `a`.
ProcessEdge(b, a) ==
    \/ a.state = b.state
    \/ b.state = "attack" /\ a.state = "decay" /\ a.level = LevelOne
    \/ b.state = "decay" /\ a.state = "sustain" /\ a.level = SustainLevel
    \/ b.state = "release" /\ a.state = "off" /\ a.level = 0

\* The envelopes the voices of the last call have after it: those still in
\* the active set and those the call dropped.
EnvelopesAfter == unit.active_notes \o unitCall.silenced

\* The edges of the last call hold for the voices in the given sequence.
EdgesHold(after) ==
    /\ unitCall.op = "note_on" =>
          \A i \in DOMAIN after :
             IF after[i].note_name = unitCall.note
             THEN after[i].state = "attack" /\ after[i].level = 0
             ELSE \E j \in DOMAIN unitCall.before : unitCall.before[j] = after[i]
    /\ unitCall.op = "note_off" =>
          /\ Len(after) = Len(unitCall.before)
          /\ \A i \in DOMAIN after :
               IF after[i].note_name = unitCall.note
               THEN after[i].state = "release"
               ELSE after[i] = unitCall.before[i]
    /\ unitCall.op = "process" =>
          \A i \in DOMAIN after : \A j \in DOMAIN unitCall.before :
             after[i].note_name = unitCall.before[j].note_name =>
                ProcessEdge(unitCall.before[j], after[i])
    /\ \A i \in DOMAIN after : 0 <= after[i].level /\ after[i].level <= LevelOne

\* C32: an envelope's state changes only from off to attack on note_on, from
\* attack to decay at level 1, from decay to sustain at the sustain level,
\* from any state to release on note_off and from release to off at level 0;
\* process never leaves sustain or off, and the level stays within [0, 1].
C32_EnvelopeEdges == EdgesHold(EnvelopesAfter)

\* C33: once a voice has had its note_off, repeated Instrument.process(N)
\* calls, whatever the block size N >= 1, bring its envelope to off and then
\* take the voice out of the active set.
C33_ReleasedVoiceIsDestroyed ==
    (calcOut.fn = "drain" /\ calcOut.phase = "released") ~> (unit.active_notes = <<>>)

====
